---- MODULE Spec2Model ----
(***************************************************************************)
(* Batch query engine of the PDF report generator (report_factory.py):     *)
(* QueryCache._make_base_query, QueryCache.prefetch and QueryCache.get,    *)
(* with the database connection they talk to.                              *)
(*                                                                         *)
(* A Python str is modelled as a sequence of one-character strings, so     *)
(* that the regular expressions and the substring tests of the source act  *)
(* on the same text the program sees.                                      *)
(***************************************************************************)
EXTENDS Integers, Sequences, FiniteSets, TLC

(***************************************************************************)
(* Text primitives (Python str methods).                                   *)
(***************************************************************************)
LowerOf ==
  [A |-> "a", B |-> "b", C |-> "c", D |-> "d", E |-> "e", F |-> "f", G |-> "g",
   H |-> "h", I |-> "i", J |-> "j", K |-> "k", L |-> "l", M |-> "m", N |-> "n",
   O |-> "o", P |-> "p", Q |-> "q", R |-> "r", S |-> "s", T |-> "t", U |-> "u",
   V |-> "v", W |-> "w", X |-> "x", Y |-> "y", Z |-> "z"]

ToLower(c) == IF c \in DOMAIN LowerOf THEN LowerOf[c] ELSE c

\* str.lower()
Lower(s) == [i \in 1..Len(s) |-> ToLower(s[i])]

\* the characters \s matches (and str.strip() removes) in the texts modelled
IsSpace(c) == c \in {" ", "\n", "\t"}

\* does the word w occur in s at position i (1-based); ic: ignoring case
HasAt(s, i, w, ic) ==
  /\ i >= 1
  /\ i + Len(w) - 1 <= Len(s)
  /\ \A j \in 1..Len(w) :
       IF ic THEN ToLower(s[i + j - 1]) = ToLower(w[j]) ELSE s[i + j - 1] = w[j]

\* `sub in s`
Contains(s, sub) == \E i \in 1..(Len(s) + 1) : HasAt(s, i, sub, FALSE)

\* the least element of a non-empty set of integers
Least(S) == CHOOSE x \in S : \A y \in S : x <= y

\* the first position at or after i that holds no white space (Len(s) + 1 if none)
SkipWs(s, i) == Least({j \in i..(Len(s) + 1) : j = Len(s) + 1 \/ ~IsSpace(s[j])})

\* the first position at or after i that holds a quote (Len(s) + 1 if none)
SkipNotQuote(s, i) == Least({j \in i..(Len(s) + 1) : j = Len(s) + 1 \/ s[j] = "'"})

\* str.strip()
Strip(s) ==
  LET Kept(keep) ==
        IF keep = {} THEN <<>>
        ELSE SubSeq(s, Least(keep), Len(s) - Least({Len(s) - i : i \in keep}))
  IN Kept({i \in 1..Len(s) : ~IsSpace(s[i])})

\* str.split(sep) for a one-character separator: the pieces between the separators
Split(s, sep) ==
  LET \* the position of the k-th separator; 0 and Len(s) + 1 bound the text
      pos(at, k) == IF k = 0 THEN 0
                    ELSE IF k > Cardinality(at) THEN Len(s) + 1
                    ELSE CHOOSE i \in at : Cardinality({j \in at : j < i}) = k - 1
      Pieces(at) ==
        [k \in 1..(Cardinality(at) + 1) |-> SubSeq(s, pos(at, k - 1) + 1, pos(at, k) - 1)]
  IN Pieces({i \in 1..Len(s) : s[i] = sep})

\* list.index(x), 0-based; the callers test membership first
IndexOf(list, x) == Least({i \in 1..Len(list) : list[i] = x}) - 1

InList(list, x) == \E i \in 1..Len(list) : list[i] = x

\* sep.join(list)
RECURSIVE JoinWith(_, _)
JoinWith(list, sep) ==
  IF Len(list) = 0 THEN <<>>
  ELSE IF Len(list) = 1 THEN list[1]
  ELSE list[1] \o sep \o JoinWith(Tail(list), sep)

(***************************************************************************)
(* Regular expressions (Python re).  A pattern is a sequence of elements:  *)
(* a literal word (case-sensitive or re.IGNORECASE), \s*, \s+, [^']* and   *)
(* $.  Every greedy element of the patterns below is followed by a literal *)
(* whose first character lies outside the element's class, or ends the     *)
(* pattern, so the greedy match is the only match and no backtracking is   *)
(* needed.                                                                 *)
(***************************************************************************)
Lit(w) == [k |-> "lit", w |-> w, ic |-> FALSE]
LitI(w) == [k |-> "lit", w |-> w, ic |-> TRUE]
Ws0 == [k |-> "ws0", w |-> <<>>, ic |-> FALSE]
Ws1 == [k |-> "ws1", w |-> <<>>, ic |-> FALSE]
NotQuote0 == [k |-> "notq", w |-> <<>>, ic |-> FALSE]
EndOfText == [k |-> "end", w |-> <<>>, ic |-> FALSE]

\* the index after the match of re[k..] at position i of s, or 0 if none
RECURSIVE MatchFrom(_, _, _, _)
MatchFrom(re, k, s, i) ==
  IF k > Len(re) THEN i
  ELSE LET e == re[k] IN
    CASE e.k = "lit" ->
           IF HasAt(s, i, e.w, e.ic) THEN MatchFrom(re, k + 1, s, i + Len(e.w)) ELSE 0
      [] e.k = "ws0" -> MatchFrom(re, k + 1, s, SkipWs(s, i))
      [] e.k = "ws1" ->
           IF i <= Len(s) /\ IsSpace(s[i]) THEN MatchFrom(re, k + 1, s, SkipWs(s, i)) ELSE 0
      [] e.k = "notq" -> MatchFrom(re, k + 1, s, SkipNotQuote(s, i))
      [] e.k = "end" -> IF i = Len(s) + 1 THEN MatchFrom(re, k + 1, s, i) ELSE 0

\* re.search(re, s) is not None
ReSearch(re, s) == \E i \in 1..Len(s) : MatchFrom(re, 1, s, i) # 0

\* re.match(re, s) is not None
ReMatch(re, s) == MatchFrom(re, 1, s, 1) # 0

\* re.sub(re, repl, s, count): the leftmost non-overlapping matches are replaced,
\* at most count of them (count = 0: all).  No pattern here matches the empty text.
RECURSIVE SubFrom(_, _, _, _, _, _)
SubFrom(re, repl, s, i, count, done) ==
  LET ReplacedAt(m) ==
        SubSeq(s, i, m - 1) \o repl
        \o SubFrom(re, repl, s, MatchFrom(re, 1, s, m), count, done + 1)
      Rest(starts) ==
        IF starts = {} \/ (count # 0 /\ done >= count) THEN SubSeq(s, i, Len(s))
        ELSE ReplacedAt(Least(starts))
  IN Rest({j \in i..Len(s) : MatchFrom(re, 1, s, j) # 0})

ReSub(re, repl, s, count) == SubFrom(re, repl, s, 1, count, 0)

\* str.replace(old, new)
Replace(s, old, new) == ReSub(<<Lit(old)>>, new, s, 0)

(***************************************************************************)
(* Words of the query texts.                                               *)
(***************************************************************************)
sNrUmowy == <<"n","r","_","u","m","o","w","y">>
sNazwaSklepu == <<"n","a","z","w","a","_","s","k","l","e","p","u">>
sPhNr == <<"{","n","r","}">>
sPhLok == <<"{","l","o","k","}">>
sQuote == <<"'">>
sEquals == <<"=">>
sSELECT == <<"S","E","L","E","C","T">>
sDISTINCT == <<"D","I","S","T","I","N","C","T">>
sFROM == <<"F","R","O","M">>
sWHERE == <<"W","H","E","R","E">>
sAND == <<"A","N","D">>
sOneEqOne == <<"1","=","1">>
sCommaSp == <<","," ">>
sSelectSp == <<"S","E","L","E","C","T"," ">>
sSelectDistinctSp == <<"S","E","L","E","C","T"," ","D","I","S","T","I","N","C","T"," ">>
sWhereSp == <<"W","H","E","R","E"," ">>

\* None, for a column index
NoneCol == -1

(***************************************************************************)
(* The patterns of _make_base_query.                                       *)
(***************************************************************************)
\* <col>\s*=\s*'[^']*'
FilterPredicate(col, ic) ==
  <<IF ic THEN LitI(col) ELSE Lit(col), Ws0, Lit(sEquals), Ws0, Lit(sQuote), NotQuote0, Lit(sQuote)>>

\* r"nr_umowy\s*=\s*'[^']*'" without flags (lines 78, 79): case-sensitive
DetectFilter(col) == FilterPredicate(col, FALSE)

\* r"\s+AND\s+<col>\s*=\s*'[^']*'", re.IGNORECASE (lines 83, 97)
AndThenFilter(col) == <<Ws1, LitI(sAND), Ws1>> \o FilterPredicate(col, TRUE)

\* r"<col>\s*=\s*'[^']*'\s*AND\s*", re.IGNORECASE (lines 87, 101)
FilterThenAnd(col) == FilterPredicate(col, TRUE) \o <<Ws0, LitI(sAND), Ws0>>

\* r"<col>\s*=\s*'[^']*'", re.IGNORECASE (lines 91, 105)
FilterAlone(col) == FilterPredicate(col, TRUE)

\* r"WHERE\s+1=1\s*$", re.IGNORECASE (line 110)
WhereTrueAtEnd == <<LitI(sWHERE), Ws1, Lit(sOneEqOne), Ws0, EndOfText>>

\* r"WHERE\s+1=1\s+AND\s+", re.IGNORECASE (line 111)
WhereTrueAnd == <<LitI(sWHERE), Ws1, Lit(sOneEqOne), Ws1, LitI(sAND), Ws1>>

\* r"\s*SELECT\s+DISTINCT\s+", re.IGNORECASE (line 116)
StartsSelectDistinct == <<Ws0, LitI(sSELECT), Ws1, LitI(sDISTINCT), Ws1>>

\* r"SELECT\s+DISTINCT\s+" (line 134) and r"SELECT\s+" (line 142), re.IGNORECASE
SelectDistinctKw == <<LitI(sSELECT), Ws1, LitI(sDISTINCT), Ws1>>
SelectKw == <<LitI(sSELECT), Ws1>>
DistinctKw == <<LitI(sDISTINCT), Ws1>>
WsFrom == <<Ws1, LitI(sFROM)>>

\* the three substitutions that remove the filter on col (lines 82-93, 96-107)
RemoveFilter(col, q) ==
  LET q1 == ReSub(AndThenFilter(col), <<>>, q, 0)
      q2 == ReSub(FilterThenAnd(col), <<>>, q1, 0)
  IN ReSub(FilterAlone(col), sOneEqOne, q2, 0)

\* lines 110-111
CleanWhereTrue(q) ==
  ReSub(WhereTrueAnd, sWhereSp, ReSub(WhereTrueAtEnd, <<>>, q, 0), 0)

\* the lazy group (.+?) starting at j: the least p > j with \s+FROM at p, or 0
LazyGroupEnd(s, j) ==
  LET FirstOf(ends) == IF ends = {} THEN 0 ELSE Least(ends)
  IN FirstOf({p \in (j + 1)..Len(s) : MatchFrom(WsFrom, 1, s, p) # 0})

\* r"SELECT\s+(?:DISTINCT\s+)?(.+?)\s+FROM" tried at position i: group(1), or
\* <<>> with found = FALSE.  The optional DISTINCT is tried first, then skipped.
SelectMatchAt(s, i) ==
  LET \* j, jd: after SELECT\s+ and after DISTINCT\s+; pd, pn: the end of the group
      Group(j, jd, pd, pn) ==
        IF pd # 0 THEN [found |-> TRUE, group |-> SubSeq(s, jd, pd - 1)]
        ELSE IF pn # 0 THEN [found |-> TRUE, group |-> SubSeq(s, j, pn - 1)]
        ELSE [found |-> FALSE, group |-> <<>>]
      AfterKeywords(j, jd) ==
        Group(j, jd, IF jd = 0 THEN 0 ELSE LazyGroupEnd(s, jd),
              IF j = 0 THEN 0 ELSE LazyGroupEnd(s, j))
      AfterSelect(j) == AfterKeywords(j, IF j = 0 THEN 0 ELSE MatchFrom(DistinctKw, 1, s, j))
  IN AfterSelect(MatchFrom(SelectKw, 1, s, i))

\* re.search of that pattern with re.IGNORECASE | re.DOTALL (lines 117-120)
SelectSearch(s) ==
  LET Leftmost(starts) ==
        IF starts = {} THEN [found |-> FALSE, group |-> <<>>]
        ELSE SelectMatchAt(s, Least(starts))
  IN Leftmost({i \in 1..Len(s) : SelectMatchAt(s, i).found})

\* [c.strip().lower() for c in existing_cols.split(',')] (lines 159, 166)
StripEach(list) == [i \in 1..Len(list) |-> Lower(Strip(list[i]))]

\* lines 154-167: the index of a filter column in the rows of the batch query
FilterColIndex(has_filter, col, extra_cols, existing_cols, added_count) ==
  IF ~has_filter THEN NoneCol
  ELSE IF InList(extra_cols, col) THEN IndexOf(extra_cols, col)
  ELSE LET Among(cols) ==
             IF InList(cols, col) THEN added_count + IndexOf(cols, col) ELSE NoneCol
       IN Among(StripEach(Split(existing_cols, ",")))

\* lines 129-147: the filter columns put in front of the select list
InsertColumns(q_clean, extra_cols) ==
  IF extra_cols = <<>> THEN q_clean
  ELSE LET prefix == JoinWith(extra_cols, sCommaSp) \o sCommaSp
       IN IF ReMatch(StartsSelectDistinct, q_clean)
          THEN ReSub(SelectDistinctKw, sSelectDistinctSp \o prefix, q_clean, 1)
          ELSE ReSub(SelectKw, sSelectSp \o prefix, q_clean, 1)

\* a rewrite that puts a filter column in front whether or not it is selected
FilterPresent(has_filter, existing_cols, col) == has_filter

\* lines 124-127: `if has_filter and col not in existing_cols`, on the text of
\* the select list
NeedsColumn(has_filter, existing_cols, col) == has_filter /\ ~Contains(existing_cols, col)

\* QueryCache._make_base_query (lines 62-169), its steps from the last to the first
make_base_query(query) ==
  LET \* lines 129-169: (base_q, nr_col, lok_col, added_count)
      Built(q_clean, has_nr_filter, has_lok_filter, existing_cols, extra_cols, added_count) ==
        [base_q |-> Strip(InsertColumns(q_clean, extra_cols)),
         nr_col |-> FilterColIndex(has_nr_filter, sNrUmowy, extra_cols, existing_cols,
                                   added_count),
         lok_col |-> FilterColIndex(has_lok_filter, sNazwaSklepu, extra_cols, existing_cols,
                                    added_count),
         added_count |-> added_count]
      \* line 152: added_count = len(extra_cols)
      Counted(q_clean, has_nr_filter, has_lok_filter, existing_cols, extra_cols) ==
        Built(q_clean, has_nr_filter, has_lok_filter, existing_cols, extra_cols,
              Len(extra_cols))
      \* lines 123-127: extra_cols
      Extended(q_clean, has_nr_filter, has_lok_filter, existing_cols) ==
        Counted(q_clean, has_nr_filter, has_lok_filter, existing_cols,
                (IF NeedsColumn(has_nr_filter, existing_cols, sNrUmowy)
                 THEN <<sNrUmowy>> ELSE <<>>)
                \o (IF NeedsColumn(has_lok_filter, existing_cols, sNazwaSklepu)
                    THEN <<sNazwaSklepu>> ELSE <<>>))
      \* line 121: existing_cols
      Selected(q_clean, has_nr_filter, has_lok_filter, select_match) ==
        Extended(q_clean, has_nr_filter, has_lok_filter,
                 IF select_match.found THEN Lower(select_match.group) ELSE <<>>)
      \* lines 117-120: select_match
      Cleaned(q_clean, has_nr_filter, has_lok_filter) ==
        Selected(q_clean, has_nr_filter, has_lok_filter, SelectSearch(q_clean))
      \* lines 78-111: has_nr_filter, has_lok_filter, q_clean
      Stripped(q) ==
        Cleaned(CleanWhereTrue(RemoveFilter(sNazwaSklepu, RemoveFilter(sNrUmowy, q))),
                Contains(q, sPhNr) \/ ReSearch(DetectFilter(sNrUmowy), q),
                Contains(q, sPhLok) \/ ReSearch(DetectFilter(sNazwaSklepu), q))
  IN \* line 75: q = query.strip()
     Stripped(Strip(query))

(***************************************************************************)
(* The query templates a configuration may hold (summary.query and        *)
(* data_tables[].query), assembled from their parts.                       *)
(***************************************************************************)
\* select keywords and clause words
\* select 
sSelectLowerSp == <<"s","e","l","e","c","t"," ">>
\*  FROM t
sFromT == <<" ","F","R","O","M"," ","t">>
\*  WHERE 
sWhere == <<" ","W","H","E","R","E"," ">>
\*  AND 
sAndSp == <<" ","A","N","D"," ">>
\*  ORDER BY a
sOrderByA == <<" ","O","R","D","E","R"," ","B","Y"," ","a">>

\* select lists
\* a, b
pAB == <<"a",","," ","b">>
\* nr_umowy, a
pNrA == <<"n","r","_","u","m","o","w","y",","," ","a">>
\* a, nr_umowy
pANr == <<"a",","," ","n","r","_","u","m","o","w","y">>
\* t.nr_umowy, a
pTNrA == <<"t",".","n","r","_","u","m","o","w","y",","," ","a">>
\* stary_nr_umowy, a
pStaryA == <<"s","t","a","r","y","_","n","r","_","u","m","o","w","y",","," ","a">>
\* nazwa_sklepu, a
pSklepA == <<"n","a","z","w","a","_","s","k","l","e","p","u",","," ","a">>
\* NR_UMOWY, a
pNRA == <<"N","R","_","U","M","O","W","Y",","," ","a">>
\* nr_umowy, nazwa_sklepu, a
pNrSklepA == <<"n","r","_","u","m","o","w","y",","," ","n","a","z","w","a","_","s","k","l","e","p","u",","," ","a">>

\* entity and location filter predicates, as a configuration may write them
\* nr_umowy = '{nr}'
fNr == <<"n","r","_","u","m","o","w","y"," ","="," ","'","{","n","r","}","'">>
\* nr_umowy = 'U1'
fNrLit == <<"n","r","_","u","m","o","w","y"," ","="," ","'","U","1","'">>
\* NR_UMOWY = '{nr}'
fNrUp == <<"N","R","_","U","M","O","W","Y"," ","="," ","'","{","n","r","}","'">>
\* NR_UMOWY = 'U1'
fNrUpLit == <<"N","R","_","U","M","O","W","Y"," ","="," ","'","U","1","'">>
\* nr_umowy = {nr}
fNrBare == <<"n","r","_","u","m","o","w","y"," ","="," ","{","n","r","}">>
\* t.nr_umowy = '{nr}'
fNrQual == <<"t",".","n","r","_","u","m","o","w","y"," ","="," ","'","{","n","r","}","'">>
\* nr_umowy='{nr}'
fNrTight == <<"n","r","_","u","m","o","w","y","=","'","{","n","r","}","'">>
\* nazwa_sklepu = '{lok}'
fLok == <<"n","a","z","w","a","_","s","k","l","e","p","u"," ","="," ","'","{","l","o","k","}","'">>
\* nazwa_sklepu = 'S1'
fLokLit == <<"n","a","z","w","a","_","s","k","l","e","p","u"," ","="," ","'","S","1","'">>

\* other predicates
\* g = 'X'
oG == <<"g"," ","="," ","'","X","'">>
\* a = 'x'
oA == <<"a"," ","="," ","'","x","'">>
\* stary_nr_umowy = 'U2'
oStary == <<"s","t","a","r","y","_","n","r","_","u","m","o","w","y"," ","="," ","'","U","2","'">>

\* procedure calls and templates with surrounding white space or line breaks
\* CALL P('{nr}')
tCallQuoted == <<"C","A","L","L"," ","P","(","'","{","n","r","}","'",")">>
\* CALL P({nr})
tCallBare == <<"C","A","L","L"," ","P","(","{","n","r","}",")">>
\* CALL P('{nr}', '{lok}')
tCallLok == <<"C","A","L","L"," ","P","(","'","{","n","r","}","'",","," ","'","{","l","o","k","}","'",")">>
\*   SELECT a, b FROM t WHERE nr_umowy = '{nr}'\n
tPadded == <<" "," ","S","E","L","E","C","T"," ","a",","," ","b"," ","F","R","O","M"," ","t"," ","W","H","E","R","E"," ","n","r","_","u","m","o","w","y"," ","="," ","'","{","n","r","}","'","\n">>
\* SELECT a, b\nFROM t\nWHERE nr_umowy = '{nr}'\n  AND g = 'X'\n
tMultiLine == <<"S","E","L","E","C","T"," ","a",","," ","b","\n","F","R","O","M"," ","t","\n","W","H","E","R","E"," ","n","r","_","u","m","o","w","y"," ","="," ","'","{","n","r","}","'","\n"," "," ","A","N","D"," ","g"," ","="," ","'","X","'","\n">>
\* DISTINCT written with a parenthesis, and in lower case with wide spacing
\* SELECT DISTINCT(a), b FROM t WHERE nr_umowy = '{nr}'
tDistinctParen == <<"S","E","L","E","C","T"," ","D","I","S","T","I","N","C","T","(","a",")",","," ","b"," ","F","R","O","M"," ","t"," ","W","H","E","R","E"," ","n","r","_","u","m","o","w","y"," ","="," ","'","{","n","r","}","'">>
\* select  distinct a, b FROM t WHERE nr_umowy = '{nr}'
tLowerDistinct == <<"s","e","l","e","c","t"," "," ","d","i","s","t","i","n","c","t"," ","a",","," ","b"," ","F","R","O","M"," ","t"," ","W","H","E","R","E"," ","n","r","_","u","m","o","w","y"," ","="," ","'","{","n","r","}","'">>

SelectKeywords == {sSelectSp, sSelectDistinctSp, sSelectLowerSp}

SelectLists == {pAB, pNrA, pANr, pTNrA, pStaryA, pSklepA, pNRA, pNrSklepA}

\* the conjunctions of a WHERE clause: the filter first, in the middle, last, alone
WhereClauses ==
  {<<>>, <<oG>>,
   <<fNr>>, <<fNr, oG>>, <<oG, fNr>>, <<oG, fNr, oA>>,
   <<fNr, fLok>>, <<fLok, fNr>>, <<oG, fNr, fLok>>, <<fNr, oG, fLok>>,
   <<fLok>>, <<fLok, oG>>, <<fLokLit, fNr>>,
   <<fNrLit>>, <<fNrLit, oG>>, <<fNrTight, oG>>,
   <<fNrUp>>, <<fNrUpLit>>, <<fNrUpLit, oG>>,
   <<fNrBare>>, <<fNrBare, oG>>,
   <<fNrQual>>, <<fNrQual, oG>>, <<oG, fNrQual>>,
   <<oStary, fNr>>}

Tails == {<<>>, sOrderByA}

SelectTemplate(sel, proj, preds, tail) ==
  sel \o proj \o sFromT
  \o (IF preds = <<>> THEN <<>> ELSE sWhere \o JoinWith(preds, sAndSp))
  \o tail

AllSelectTemplates ==
  {SelectTemplate(sel, proj, preds, tail) :
     sel \in SelectKeywords, proj \in SelectLists, preds \in WhereClauses, tail \in Tails}

OtherTemplates ==
  {tCallQuoted, tCallBare, tCallLok, tPadded, tMultiLine, tDistinctParen, tLowerDistinct}

(***************************************************************************)
(* The database behind the connection.  A cell is a string, an integer or  *)
(* NULL; the connection answers a statement with rows of cells or raises.  *)
(* The one table t holds contracts U1 and U2 with their shops, stored in   *)
(* the order of column a (the only ORDER BY of the templates); procedure P *)
(* returns columns a, b of the rows of a contract (and a shop).            *)
(***************************************************************************)
StrCell(s) == [k |-> "str", s |-> s, n |-> 0]
IntCell(n) == [k |-> "int", s |-> <<>>, n |-> n]
NullCell == [k |-> "null", s |-> <<>>, n |-> 0]

U1 == <<"U","1">>
U2 == <<"U","2">>
S1 == <<"S","1">>
S2 == <<"S","2">>
sStaryNrUmowy == <<"s","t","a","r","y","_","n","r","_","u","m","o","w","y">>

Fields == {sNrUmowy, sNazwaSklepu, <<"a">>, <<"b">>, <<"g">>, sStaryNrUmowy}

TableRow(nr, sklep, a, b, g, stary) ==
  [f \in Fields |->
     CASE f = sNrUmowy -> StrCell(nr)
       [] f = sNazwaSklepu -> StrCell(sklep)
       [] f = <<"a">> -> StrCell(a)
       [] f = <<"b">> -> b
       [] f = <<"g">> -> StrCell(g)
       [] f = sStaryNrUmowy -> StrCell(stary)]

TableT ==
  <<TableRow(U1, S1, <<"x">>, IntCell(10), <<"X">>, U2),
    TableRow(U2, S1, <<"y">>, IntCell(20), <<"X">>, U1),
    TableRow(U1, S2, <<"z">>, NullCell, <<"Y">>, U1)>>

DigitChars == <<"0","1","2","3","4","5","6","7","8","9">>

\* str(n) for an int
RECURSIVE Decimal(_)
Decimal(n) ==
  IF n < 0 THEN <<"-">> \o Decimal(0 - n)
  ELSE IF n < 10 THEN <<DigitChars[n + 1]>>
  ELSE Decimal(n \div 10) \o <<DigitChars[(n % 10) + 1]>>

\* the words of a text, split at white space
Words(s) ==
  LET start(starts, k) == CHOOSE i \in starts : Cardinality({j \in starts : j < i}) = k - 1
      end(i) == Least({j \in i..Len(s) : j = Len(s) \/ IsSpace(s[j + 1])})
      WordAt(i) == SubSeq(s, i, end(i))
      WordsAt(starts) == [k \in 1..Cardinality(starts) |-> WordAt(start(starts, k))]
  IN WordsAt({i \in 1..Len(s) : ~IsSpace(s[i]) /\ (i = 1 \/ IsSpace(s[i - 1]))})

IsWord(w, kw) == Len(w) = Len(kw) /\ HasAt(w, 1, kw, TRUE)

\* the position of the first word kw in ws at or after i, or 0
FindWord(ws, kw, i) ==
  LET FirstAt(at) == IF at = {} THEN 0 ELSE Least(at)
  IN FirstAt({j \in i..Len(ws) : IsWord(ws[j], kw)})

IsQuoted(s) ==
  /\ Len(s) >= 2
  /\ s[1] = "'"
  /\ s[Len(s)] = "'"
  /\ \A i \in 2..(Len(s) - 1) : s[i] # "'"

Unquote(s) == SubSeq(s, 2, Len(s) - 1)

\* a column reference: a field of t, in any case, optionally qualified by t.
ColumnName(ref) ==
  LET Unqualified(low) ==
        IF HasAt(low, 1, <<"t", ".">>, FALSE) THEN SubSeq(low, 3, Len(low)) ELSE low
  IN Unqualified(Lower(Strip(ref)))

\* the predicates of a WHERE clause: the groups of words between the ANDs
RECURSIVE PredicatesOf(_, _)
PredicatesOf(ws, cur) ==
  IF ws = <<>> THEN <<cur>>
  ELSE IF IsWord(Head(ws), sAND) THEN <<cur>> \o PredicatesOf(Tail(ws), <<>>)
  ELSE PredicatesOf(Tail(ws), cur \o Head(ws))

\* <column> = '<literal>' or 1=1
PredicateValid(p) ==
  LET Valid(sides) ==
        /\ Len(sides) = 2
        /\ \/ sides = <<<<"1">>, <<"1">>>>
           \/ ColumnName(sides[1]) \in Fields /\ IsQuoted(sides[2])
  IN Valid(Split(p, "="))

PredicateHolds(p, row) ==
  LET Holds(sides) ==
        \/ sides = <<<<"1">>, <<"1">>>>
        \/ row[ColumnName(sides[1])] = StrCell(Unquote(sides[2]))
  IN Holds(Split(p, "="))

RECURSIVE SelectRows(_, _)
SelectRows(rows, preds) ==
  IF rows = <<>> THEN <<>>
  ELSE (IF \A i \in 1..Len(preds) : PredicateHolds(preds[i], Head(rows))
        THEN <<Head(rows)>> ELSE <<>>) \o SelectRows(Tail(rows), preds)

ProjectRow(row, cols) == [i \in 1..Len(cols) |-> row[ColumnName(cols[i])]]

RECURSIVE ProjectRows(_, _)
ProjectRows(rows, cols) ==
  IF rows = <<>> THEN <<>>
  ELSE <<ProjectRow(Head(rows), cols)>> \o ProjectRows(Tail(rows), cols)

\* SELECT DISTINCT: the first occurrence of every row
RECURSIVE Distinct(_, _)
Distinct(rows, seen) ==
  IF rows = <<>> THEN <<>>
  ELSE IF InList(seen, Head(rows)) THEN Distinct(Tail(rows), seen)
  ELSE <<Head(rows)>> \o Distinct(Tail(rows), Append(seen, Head(rows)))

SyntaxError == [ok |-> FALSE, rows |-> <<>>]

\* SELECT [DISTINCT] <columns> FROM t [WHERE <p> AND ...] [ORDER BY a]
DbSelect(ws) ==
  LET Answered(distinct, rows) ==
        [ok |-> TRUE, rows |-> IF distinct THEN Distinct(rows, <<>>) ELSE rows]
      \* the places of the select list (first), FROM, WHERE, ORDER and the last
      \* word of the condition; the columns and the predicates
      Parsed(distinct, first, from, where, order, stop, cols, preds) ==
        IF /\ from > first
           /\ \A i \in 1..Len(cols) : ColumnName(cols[i]) \in Fields
           /\ Len(ws) >= from + 1 /\ ws[from + 1] = <<"t">>
           /\ IF where = 0 THEN stop = from + 1 ELSE where = from + 2
           /\ \A i \in 1..Len(preds) : PredicateValid(preds[i])
           /\ order # 0 =>
                /\ Len(ws) = order + 2
                /\ IsWord(ws[order + 1], <<"B","Y">>)
                /\ ws[order + 2] = <<"a">>
        THEN Answered(distinct, ProjectRows(SelectRows(TableT, preds), cols))
        ELSE SyntaxError
      Clauses(distinct, first, from, where, order, stop) ==
        Parsed(distinct, first, from, where, order, stop,
               IF from = 0 THEN <<>>
               ELSE Split(JoinWith(SubSeq(ws, first, from - 1), <<" ">>), ","),
               IF where = 0 THEN <<>> ELSE PredicatesOf(SubSeq(ws, where + 1, stop), <<>>))
      Tailed(distinct, from, where, order) ==
        Clauses(distinct, IF distinct THEN 3 ELSE 2, from, where, order,
                IF order = 0 THEN Len(ws) ELSE order - 1)
      Located(distinct, from) ==
        Tailed(distinct, from, FindWord(ws, sWHERE, from + 2),
               FindWord(ws, <<"O","R","D","E","R">>, from + 2))
  IN Located(Len(ws) >= 2 /\ IsWord(ws[2], sDISTINCT), FindWord(ws, sFROM, 2))

\* CALL P('<nr>') or CALL P('<nr>', '<lok>')
DbCall(text) ==
  LET Selected(preds) ==
        [ok |-> TRUE, rows |-> ProjectRows(SelectRows(TableT, preds), <<<<"a">>, <<"b">>>>)]
      \* open: the place of the parenthesis; args: the arguments between the commas
      Called(open, args) ==
        IF /\ text[Len(text)] = ")"
           /\ Strip(SubSeq(text, 1, open - 1)) = <<"C","A","L","L"," ","P">>
           /\ Len(args) \in {1, 2}
           /\ \A i \in 1..Len(args) : IsQuoted(args[i])
        THEN Selected(<<sNrUmowy \o <<"=">> \o args[1]>>
                      \o (IF Len(args) = 2 THEN <<sNazwaSklepu \o <<"=">> \o args[2]>>
                          ELSE <<>>))
        ELSE SyntaxError
      Stripped(raw) == [i \in 1..Len(raw) |-> Strip(raw[i])]
      Opened(open) ==
        Called(open, Stripped(Split(SubSeq(text, open + 1, Len(text) - 1), ",")))
  IN IF ~(\E i \in 1..Len(text) : text[i] = "(") THEN SyntaxError
     ELSE Opened(Least({i \in 1..Len(text) : text[i] = "("}))

\* cursor.execute(text); cursor.fetchall(): the rows, or ok = FALSE when it raises
DbExecute(text) ==
  LET Run(ws) ==
        IF ws = <<>> THEN SyntaxError
        ELSE IF IsWord(ws[1], sSELECT) THEN DbSelect(ws)
        ELSE IF IsWord(ws[1], <<"C","A","L","L">>) THEN DbCall(Strip(text))
        ELSE SyntaxError
  IN Run(Words(text))

(***************************************************************************)
(* The configurations: the query templates of the loaded report types.     *)
(***************************************************************************)
\* SELECT a, b FROM t WHERE nr_umowy = '{nr}'
T_nr == SelectTemplate(sSelectSp, pAB, <<fNr>>, <<>>)
\* SELECT a, b FROM t WHERE nr_umowy = 'U1'
T_lit == SelectTemplate(sSelectSp, pAB, <<fNrLit>>, <<>>)
\* SELECT a, b FROM t
T_all == SelectTemplate(sSelectSp, pAB, <<>>, <<>>)
\* SELECT a, b FROM t WHERE nr_umowy = '{nr}' AND nazwa_sklepu = '{lok}'
T_nr_lok == SelectTemplate(sSelectSp, pAB, <<fNr, fLok>>, <<>>)
\* SELECT nr_umowy, a FROM t WHERE nr_umowy = '{nr}'
T_proj == SelectTemplate(sSelectSp, pNrA, <<fNr>>, <<>>)
\* SELECT a, nr_umowy FROM t WHERE nr_umowy = '{nr}'
T_proj_last == SelectTemplate(sSelectSp, pANr, <<fNr>>, <<>>)
\* SELECT nr_umowy, a FROM t WHERE nr_umowy = '{nr}' AND nazwa_sklepu = '{lok}'
T_proj_lok == SelectTemplate(sSelectSp, pNrA, <<fNr, fLok>>, <<>>)
\* SELECT nr_umowy, nazwa_sklepu, a FROM t WHERE nr_umowy = '{nr}' AND nazwa_sklepu = '{lok}'
T_proj_both == SelectTemplate(sSelectSp, pNrSklepA, <<fNr, fLok>>, <<>>)
\* SELECT stary_nr_umowy, a FROM t WHERE nr_umowy = '{nr}'
T_stary == SelectTemplate(sSelectSp, pStaryA, <<fNr>>, <<>>)
\* SELECT t.nr_umowy, a FROM t WHERE nr_umowy = '{nr}'
T_qualified == SelectTemplate(sSelectSp, pTNrA, <<fNr>>, <<>>)
\* SELECT a, b FROM t WHERE nr_umowy = {nr}
T_bare == SelectTemplate(sSelectSp, pAB, <<fNrBare>>, <<>>)
\* SELECT a, b FROM t WHERE nr_umowy = '{nr}' ORDER BY a
T_order == SelectTemplate(sSelectSp, pAB, <<fNr>>, sOrderByA)
\* SELECT a, b FROM t WHERE g = 'X'
T_other == SelectTemplate(sSelectSp, pAB, <<oG>>, <<>>)
\* SELECT a, b FROM t WHERE stary_nr_umowy = 'U2'
T_other_stary == SelectTemplate(sSelectSp, pAB, <<oStary>>, <<>>)

SingleTemplates ==
  {T_nr, T_all, T_nr_lok, T_proj, T_proj_last, T_proj_lok, T_proj_both, T_stary, T_qualified,
   T_bare, T_order, tCallQuoted, T_other, T_other_stary}

\* one report type, or two whose templates differ
Configurations == {{t} : t \in SingleTemplates} \cup {{T_nr, T_all}}

\* configurations of several report types, for the batch
BatchConfigurations == {{T_nr, T_lit, tPadded}, {T_bare, T_all}}

\* the templates the rewrite is checked on
RewriteTemplates ==
  {SelectTemplate(sSelectSp, proj, preds, <<>>) : proj \in SelectLists, preds \in WhereClauses}
  \cup {SelectTemplate(sel, proj, preds, sOrderByA) :
          sel \in {sSelectSp, sSelectDistinctSp}, proj \in {pAB, pNrA}, preds \in WhereClauses}
  \cup {SelectTemplate(sel, proj, preds, <<>>) :
          sel \in {sSelectDistinctSp, sSelectLowerSp}, proj \in SelectLists,
          preds \in {<<>>, <<fNr>>, <<fNr, fLok>>, <<oG, fNr>>, <<fNrUpLit>>}}
  \cup OtherTemplates

(***************************************************************************)
(* Arguments of get(): contract numbers and shop names, or None.           *)
(***************************************************************************)
None == <<"None">>
sNoneText == <<"N","o","n","e">>

NrArgs == {None, U1, U2}
LokArgs == {None, S1}

\* str(x)
Str(x) == IF x = None THEN sNoneText ELSE x

\* `if x:` for a str or None
Truthy(x) == x # None /\ x # <<>>

\* str(cell) if cell is not None else ''
StrOfCell(cell) ==
  CASE cell.k = "null" -> <<>>
    [] cell.k = "str" -> cell.s
    [] cell.k = "int" -> Decimal(cell.n)

\* [[str(cell) if cell is not None else '' for cell in row] for row in rows]
Normalize(rows) ==
  [i \in 1..Len(rows) |-> [j \in 1..Len(rows[i]) |-> StrOfCell(rows[i][j])]]

\* the bounds of the model: the length of a prefetch list, and the number of
\* statements the connection is sent by fallback lookups
MaxList == 2
MaxExec == 2

VARIABLES
  cfg,               \* the query templates of the configuration
  db,                \* the database's answer to every statement the run can send
  cache,             \* QueryCache._cache: template -> all rows
  base_query_cache,  \* QueryCache._base_query_cache: template -> rewrite
  query_count,       \* QueryCache._query_count
  batch_sent,        \* the statements prefetch has sent, in order
  attempts,          \* the number of cursor.execute calls made
  completed,         \* the number of statements the database has answered
  last,              \* the last call: its arguments, outcome and statements
  threads            \* the threads that are inside prefetch, and where they are

\* the state of a generation run (main.py, __main__)
VARIABLES
  pc,                \* the place of the driver in the run
  conn,              \* the connection of the factory: "none", "open" or "closed"
  db_calls,          \* the number of requests the run has made to the database
  pdf_tasks,         \* the enumerated tasks (rt, nr, lok)
  idx,               \* the number of the task whose payload is built next
  payloads,          \* the tasks whose payload was built, in order
  csv_log_rows,      \* the records collected for the log
  futures,           \* the state of the render task of every payload
  processed,         \* the render tasks whose result the driver has taken
  all_generated,     \* the payloads whose document was rendered
  log_file           \* the records written to the log file

cacheVars ==
  <<cfg, db, cache, base_query_cache, query_count, batch_sent, attempts, completed, last,
    threads>>

runVars ==
  <<pc, conn, db_calls, pdf_tasks, idx, payloads, csv_log_rows, futures, processed,
    all_generated, log_file>>

\* the state of a ReportFactory and the last request made to it
VARIABLES
  configs,           \* the loaded configurations, by report type
  report,            \* the last request and what it gave
  factory_cache,     \* ReportFactory._cache: "None" or the "QueryCache" of a batch
  owns_connection,   \* ReportFactory._owns_connection
  connection_closes  \* the number of calls of close() the connection has received

reportVars == <<configs, report, factory_cache, owns_connection, connection_closes>>

vars == <<cacheVars, runVars, reportVars>>

\* QueryCache._get_template_query
get_template_query(query) == Strip(query)

\* a memo that answers a new template with an entry it already holds
AnyEntry(memo, template) ==
  IF template \in DOMAIN memo THEN memo
  ELSE IF DOMAIN memo = {} THEN (template :> make_base_query(template))
  ELSE (template :> memo[CHOOSE k \in DOMAIN memo : TRUE]) @@ memo

\* QueryCache._get_base_query_cached: the memo after the call; the entry of
\* template in it is what the call returns
get_base_query_cached(memo, template) ==
  IF template \in DOMAIN memo THEN memo
  ELSE (template :> make_base_query(template)) @@ memo

\* lines 223-225: the statement of the direct lookup
Resolve(query_template, nr, lokalizacja) ==
  LET resolved == Strip(Replace(query_template, sPhNr, Str(nr)))
  IN IF Truthy(lokalizacja) THEN Replace(resolved, sPhLok, Str(lokalizacja)) ELSE resolved

\* the statements a run over the templates ts can send
StatementsOf(ts) ==
  {make_base_query(get_template_query(t)).base_q : t \in ts}
  \cup {Resolve(t, nr, lok) : t \in ts, nr \in NrArgs, lok \in LokArgs}

\* cursor.execute(text); cursor.fetchall()
Answer(text) == IF text \in DOMAIN db THEN db[text] ELSE DbExecute(text)

Statement(by, template, text, ok) ==
  [by |-> by, template |-> template, text |-> text, params |-> <<>>, ok |-> ok]

(***************************************************************************)
(* QueryCache.prefetch(queries).  down: the templates for whose statement  *)
(* execute or fetchall raises for a reason outside the text (connection,   *)
(* permission).                                                            *)
(***************************************************************************)
\* a loop that skips only what this call has already fetched
SeenInThisCall(seen, entries, template) == template \in seen

\* a handler that keeps the rows of a statement that failed
EntryOfAnswer(ok, rows) == Normalize(rows)

\* a counter that moves on every statement sent
CountAttempt(count, ok) == count + 1

\* a loop that skips nothing
NothingFetched(seen, entries, template) == FALSE

\* line 189: `if template in seen or template in self._cache: continue`
AlreadyFetched(seen, entries, template) == template \in seen \/ template \in DOMAIN entries

\* lines 198-203 and 206-208: the entry stored for a template
BatchEntry(ok, rows) == IF ok THEN Normalize(rows) ELSE <<>>

\* lines 203 and 231: the counter moves when execute and fetchall have returned
CountQuery(count, ok) == IF ok THEN count + 1 ELSE count

\* one turn of the loop (lines 187-210)
PrefetchOne(st, query_template, down) ==
  LET \* lines 198-208
      Stored(template, memo, base_q, answer, ok) ==
        [seen |-> st.seen \cup {template},
         memo |-> memo,
         cache |-> (template :> BatchEntry(ok, answer.rows)) @@ st.cache,
         count |-> CountQuery(st.count, ok),
         sent |-> Append(st.sent, Statement("prefetch", template, base_q, ok))]
      \* lines 196-197
      Executed(template, memo, base_q, answer) ==
        Stored(template, memo, base_q, answer, answer.ok /\ template \notin down)
      Sent(template, memo, base_q) == Executed(template, memo, base_q, Answer(base_q))
      \* line 192
      Rewritten(template, memo) == Sent(template, memo, memo[template].base_q)
      \* lines 189-191
      Turn(template) ==
        IF AlreadyFetched(st.seen, st.cache, template) THEN st
        ELSE Rewritten(template, get_base_query_cached(st.memo, template))
  IN \* line 188
     Turn(get_template_query(query_template))

RECURSIVE PrefetchLoop(_, _, _, _)
PrefetchLoop(st, queries, i, down) ==
  IF i > Len(queries) THEN st
  ELSE PrefetchLoop(PrefetchOne(st, queries[i], down), queries, i + 1, down)

Prefetch(queries, down) ==
  LET Returned(st) ==
        /\ cache' = st.cache
        /\ base_query_cache' = st.memo
        /\ query_count' = st.count
        /\ batch_sent' = batch_sent \o st.sent
        /\ attempts' = attempts + Len(st.sent)
        /\ completed' = completed + Cardinality({i \in 1..Len(st.sent) : st.sent[i].ok})
        /\ last' = [op |-> "prefetch", queries |-> queries, nr |-> None, lok |-> None,
                    result |-> <<>>, raised |-> FALSE, sent |-> st.sent]
        /\ UNCHANGED <<cfg, db, threads>>
        /\ UNCHANGED <<runVars, reportVars>>
  IN Returned(PrefetchLoop([seen |-> {}, memo |-> base_query_cache, cache |-> cache,
                            count |-> query_count, sent |-> <<>>], queries, 1, down))

(***************************************************************************)
(* QueryCache.get(query_template, nr, lokalizacja).  down: execute or      *)
(* fetchall of the direct statement raises for a reason outside the text.  *)
(***************************************************************************)
\* [r for r in rows if r[col] == str(value)]
FilterRows(rows, col, value) == SelectSeq(rows, LAMBDA r : r[col + 1] = Str(value))

\* r[col] raises IndexError on a row that has no such column
IndexFails(rows, col) == \E i \in 1..Len(rows) : Len(rows[i]) <= col

\* lines 238-252: the lookup served from the cache
GetCached(all_rows, entry, nr, lokalizacja) ==
  LET \* lines 249-252
      Returned(rows) ==
        [raised |-> FALSE,
         rows |-> IF entry.added_count > 0
                  THEN [i \in 1..Len(rows) |->
                          SubSeq(rows[i], entry.added_count + 1, Len(rows[i]))]
                  ELSE rows]
      \* lines 245-246
      ByLok(rows, by_lok) ==
        IF by_lok /\ IndexFails(rows, entry.lok_col) THEN [raised |-> TRUE, rows |-> <<>>]
        ELSE Returned(IF by_lok THEN FilterRows(rows, entry.lok_col, lokalizacja) ELSE rows)
      \* lines 241-242
      ByNr(by_nr) ==
        IF by_nr /\ IndexFails(all_rows, entry.nr_col) THEN [raised |-> TRUE, rows |-> <<>>]
        ELSE ByLok(IF by_nr THEN FilterRows(all_rows, entry.nr_col, nr) ELSE all_rows,
                   lokalizacja # None /\ entry.lok_col # NoneCol)
  IN ByNr(nr # None /\ entry.nr_col # NoneCol)

\* a lookup that treats an empty entry as no entry
HasRows(entries, template) == template \in DOMAIN entries /\ entries[template] # <<>>

\* line 221: `template not in self._cache`, negated
InCache(entries, template) == template \in DOMAIN entries

\* a lookup that keeps the rows of its direct statement
StoreLookup(entries, template, ok, rows) ==
  IF ok THEN (template :> Normalize(rows)) @@ entries ELSE entries

\* lines 227-234: the rows of the direct statement are returned; self._cache
\* is not written
AfterLookup(entries, template, ok, rows) == entries

Get(query_template, nr, lokalizacja, down) ==
  LET \* lines 227-234: the direct lookup has run
      Looked(template, resolved, answer, ok) ==
        /\ cache' = AfterLookup(cache, template, ok, answer.rows)
        /\ query_count' = CountQuery(query_count, ok)
        /\ attempts' = attempts + 1
        /\ completed' = IF ok THEN completed + 1 ELSE completed
        /\ last' = [op |-> "get", queries |-> <<query_template>>, nr |-> nr,
                    lok |-> lokalizacja,
                    result |-> IF ok THEN Normalize(answer.rows) ELSE <<>>,
                    raised |-> ~ok,
                    sent |-> <<Statement("get", template, resolved, ok)>>]
      Executed(template, resolved, answer) ==
        Looked(template, resolved, answer, answer.ok /\ ~down)
      \* lines 223-225
      Fallback(template, resolved) == Executed(template, resolved, Answer(resolved))
      \* lines 238-252
      Served(hit) ==
        /\ last' = [op |-> "get", queries |-> <<query_template>>, nr |-> nr,
                    lok |-> lokalizacja, result |-> hit.rows, raised |-> hit.raised,
                    sent |-> <<>>]
        /\ UNCHANGED <<cache, query_count, attempts, completed>>
      \* lines 219-221
      Lookup(template, memo) ==
        \* a lookup served from the cache sends nothing that could fail; the
        \* direct lookups of a run are bounded
        /\ IF InCache(cache, template) THEN ~down ELSE attempts < MaxExec
        /\ base_query_cache' = memo
        /\ IF ~InCache(cache, template)
           THEN Fallback(template, Resolve(query_template, nr, lokalizacja))
           ELSE Served(GetCached(cache[template], memo[template], nr, lokalizacja))
        /\ UNCHANGED <<cfg, db, batch_sent, threads>>
        /\ UNCHANGED <<runVars, reportVars>>
      Keyed(template) == Lookup(template, get_base_query_cached(base_query_cache, template))
  IN \* line 218
     Keyed(get_template_query(query_template))

\* a call of _get_base_query_cached on its own
Rewrite(query) ==
  /\ base_query_cache' = get_base_query_cached(base_query_cache, get_template_query(query))
  /\ last' = [op |-> "rewrite", queries |-> <<query>>, nr |-> None, lok |-> None,
              result |-> <<>>, raised |-> FALSE, sent |-> <<>>]
  /\ UNCHANGED <<cfg, db, cache, query_count, batch_sent, attempts, completed, threads>>
  /\ UNCHANGED <<runVars, reportVars>>

\* the lists of at most n elements of S
ListsOf(S, n) == UNION {[1..k -> S] : k \in 0..n}

NoCall ==
  [op |-> "none", queries |-> <<>>, nr |-> None, lok |-> None, result |-> <<>>,
   raised |-> FALSE, sent |-> <<>>]

\* no generation run: the cache is used on its own
NoRun ==
  /\ pc = "none"
  /\ conn = "open"
  /\ db_calls = 0
  /\ pdf_tasks = <<>>
  /\ idx = 0
  /\ payloads = <<>>
  /\ csv_log_rows = <<>>
  /\ futures = <<>>
  /\ processed = {}
  /\ all_generated = <<>>
  /\ log_file = <<>>
  /\ configs = <<>>
  /\ report = [op |-> "none"]
  /\ factory_cache = "None"
  /\ owns_connection = (conn = "none")
  /\ connection_closes = 0

\* QueryCache.__init__ (lines 52-56), on the connection of a configuration
InitCache ==
  /\ cache = <<>>
  /\ base_query_cache = <<>>
  /\ query_count = 0
  /\ batch_sent = <<>>
  /\ attempts = 0
  /\ completed = 0
  /\ last = NoCall
  /\ threads = <<>>

Init ==
  /\ cfg \in Configurations
  /\ db = [text \in StatementsOf(cfg) |-> DbExecute(text)]
  /\ InitCache
  /\ NoRun

\* the templates of a list that prefetch will send a statement for
ToFetch(queries) ==
  {get_template_query(queries[i]) : i \in 1..Len(queries)} \ DOMAIN cache

PrefetchCall ==
  \E queries \in ListsOf(cfg, MaxList) :
    \E down \in SUBSET ToFetch(queries) : Prefetch(queries, down)

GetCall ==
  \E q \in cfg, nr \in NrArgs, lok \in LokArgs, down \in BOOLEAN : Get(q, nr, lok, down)

Next == PrefetchCall \/ GetCall

Spec == Init /\ [][Next]_vars

\* the batch alone, over configurations of several templates
InitBatch ==
  /\ cfg \in BatchConfigurations
  /\ db = [text \in StatementsOf(cfg) |-> DbExecute(text)]
  /\ InitCache
  /\ NoRun

SpecBatch == InitBatch /\ [][PrefetchCall]_vars

\* the rewrite alone, over all the templates
InitRewrite ==
  /\ cfg \in {{t} : t \in RewriteTemplates}
  /\ db = <<>>
  /\ InitCache
  /\ NoRun

RewriteCall == \E q \in cfg : Rewrite(q)

SpecRewrite == InitRewrite /\ [][RewriteCall]_vars

(***************************************************************************)
(* What the properties read off a state.                                   *)
(***************************************************************************)
\* the cache key of the template of the last call of get
LastTemplate == get_template_query(last.queries[1])

\* the last call was a get served from the cache
CacheHit == last.op = "get" /\ last.sent = <<>>

\* the last call was a get that sent its own statement
DirectLookup == last.op = "get" /\ last.sent # <<>>

\* prefetch sent the statement of template and the database answered / failed
Fetched(template) ==
  \E i \in 1..Len(batch_sent) : batch_sent[i].template = template /\ batch_sent[i].ok
FetchFailed(template) ==
  \E i \in 1..Len(batch_sent) : batch_sent[i].template = template /\ ~batch_sent[i].ok

\* no template occurs twice among the statements
EachTemplateOnce(sent) ==
  \A i, j \in 1..Len(sent) : i # j => sent[i].template # sent[j].template

\* the column names of the select list of a text, lower case; <<>> when the
\* text has no SELECT ... FROM
Columns(text) ==
  LET m == SelectSearch(text)
  IN IF m.found THEN StripEach(Split(m.group, ",")) ELSE <<>>

\* the template has the filter `nr_umowy = '{nr}'` / `nazwa_sklepu = '{lok}'`
HasEntityFilter(template) == Contains(template, fNr)
HasLocationFilter(template) == Contains(template, fLok)

\* the rows the database returns for the template asked for one contract
EntityRows(template, nr) == Normalize(Answer(Replace(template, sPhNr, nr)).rows)

(***************************************************************************)
(* C1  get(T, nr = X) on a prefetched template T with the entity filter    *)
(* nr_umowy = '{nr}' (and no location filter) returns, without raising,    *)
(* exactly the rows of contract X in the order of the database and with    *)
(* the columns of T's projection: what the query for that one contract     *)
(* returns.                                                                *)
(***************************************************************************)
C1_GetReturnsEntityRows ==
  (/\ CacheHit
   /\ last.nr # None
   /\ HasEntityFilter(LastTemplate)
   /\ ~HasLocationFilter(LastTemplate)
   /\ Fetched(LastTemplate))
  => /\ ~last.raised
     /\ last.result = EntityRows(LastTemplate, last.nr)

\* the case of C1 on a template the rewrite handles: the rows are those of the contract
C1_Served ==
  /\ CacheHit /\ last.nr = U1 /\ LastTemplate = T_nr /\ Fetched(T_nr)
  /\ last.result = EntityRows(T_nr, U1)

(***************************************************************************)
(* C2  A call of prefetch sends no statement for a template that has a     *)
(* cache entry (a failed one included), sends at most one statement for a  *)
(* template however often the list names it, and leaves every existing     *)
(* entry as it is; so over all calls each template is sent at most once.   *)
(***************************************************************************)
C2_EachTemplateFetchedOnce ==
  [][/\ \A t \in DOMAIN cache :
          /\ t \in DOMAIN cache' /\ cache'[t] = cache[t]
          /\ \A i \in 1..Len(last'.sent) : last'.sent[i].template # t
     /\ EachTemplateOnce(last'.sent)
     /\ EachTemplateOnce(batch_sent')]_vars

\* prefetch was given a list naming one template twice and a later call named
\* a template that had an entry: one statement was sent in all
C2_Skipped ==
  /\ last.op = "prefetch"
  /\ Len(last.queries) = 2
  /\ last.sent = <<>>
  /\ Len(batch_sent) = 1
  /\ DOMAIN cache = {T_nr}

(***************************************************************************)
(* C3  No statement text is sent twice by prefetch: two templates with the *)
(* same base query cause one execution.                                    *)
(***************************************************************************)
C3_EachBaseQueryOnce ==
  \A i, j \in 1..Len(batch_sent) : i # j => batch_sent[i].text # batch_sent[j].text

(***************************************************************************)
(* C4  When prefetch returns it has not raised and every template of its   *)
(* list has a cache entry; the entry of a template whose statement failed  *)
(* in this call is empty, and the entry of one whose statement was         *)
(* answered holds all the rows of the answer, as strings.                  *)
(***************************************************************************)
C4_PrefetchContinuesAfterFailure ==
  last.op = "prefetch" =>
    /\ ~last.raised
    /\ \A i \in 1..Len(last.queries) : get_template_query(last.queries[i]) \in DOMAIN cache
    /\ \A i \in 1..Len(last.sent) :
         LET s == last.sent[i]
         IN /\ s.template \in DOMAIN cache
            /\ cache[s.template] = IF s.ok THEN Normalize(Answer(s.text).rows) ELSE <<>>

\* one statement of a call failed and another one, after it, was answered
C4_OneFailedOthersStored ==
  /\ last.op = "prefetch"
  /\ Len(last.sent) = 2
  /\ ~last.sent[1].ok /\ last.sent[2].ok
  /\ cache[last.sent[1].template] = <<>>
  /\ cache[last.sent[2].template] # <<>>

(***************************************************************************)
(* C5  A get for a template whose prefetch failed returns no rows, does    *)
(* not raise and sends no statement, whatever contract and shop it asks.   *)
(***************************************************************************)
C5_FailedPrefetchServesEmpty ==
  (last.op = "get" /\ FetchFailed(LastTemplate))
  => /\ last.result = <<>>
     /\ ~last.raised
     /\ last.sent = <<>>

\* a get for a contract and a shop, after the prefetch of a template whose
\* statement is well formed failed
C5_AskedAfterFailure ==
  /\ last.op = "get" /\ last.nr = U1 /\ last.lok = S1
  /\ LastTemplate = T_nr_lok /\ FetchFailed(T_nr_lok)
  /\ last.sent = <<>>

(***************************************************************************)
(* C6  The statement a get sends for a template that is not in the cache   *)
(* carries the contract number as a bound parameter, and its text does not *)
(* contain the number.                                                     *)
(***************************************************************************)
C6_FallbackBindsParameters ==
  (DirectLookup /\ last.nr # None /\ Contains(LastTemplate, sPhNr))
  => /\ InList(last.sent[1].params, last.nr)
     /\ ~Contains(last.sent[1].text, last.nr)

IndexAgrees(index, col, template, entry) ==
  index # NoneCol =>
    IF InList(Columns(template), col)
    THEN index = entry.added_count + IndexOf(Columns(template), col)
    ELSE index >= 0 /\ index < entry.added_count

\* the select list of the base query is the select list of the template with
\* added_count filter columns in front of it
InsertedInFront(template, entry) ==
  LET before == Columns(template)
      after == Columns(entry.base_q)
  IN /\ entry.added_count \in 0..2
     /\ Len(after) = entry.added_count + Len(before)
     /\ \A k \in 1..Len(after) :
          IF k <= entry.added_count THEN after[k] \in {sNrUmowy, sNazwaSklepu}
          ELSE after[k] = before[k - entry.added_count]

(***************************************************************************)
(* C8  For every template, procedure calls included, added_count is the    *)
(* number of filter columns put in front of the select list of the base    *)
(* query, and nr_col and lok_col, when not None, are below added_count for *)
(* a column put in front and added_count plus the place in the original    *)
(* projection otherwise.                                                   *)
(***************************************************************************)
C8_AddedCountIsInserted ==
  \A template \in DOMAIN base_query_cache :
    LET entry == base_query_cache[template]
    IN /\ InsertedInFront(template, entry)
       /\ IndexAgrees(entry.nr_col, sNrUmowy, template, entry)
       /\ IndexAgrees(entry.lok_col, sNazwaSklepu, template, entry)

\* the template selects the column nr_umowy / nazwa_sklepu
ProjectsEntity(template) == InList(Columns(template), sNrUmowy)
ProjectsLocation(template) == InList(Columns(template), sNazwaSklepu)

\* the template has the placeholder {lok} or an equality predicate on nazwa_sklepu
FiltersLocation(template) ==
  Contains(template, sPhLok) \/ ReSearch(FilterPredicate(sNazwaSklepu, TRUE), template)

\* every row the last get returned is a row of the cache entry, as stored
RowsAsCached ==
  \A i \in 1..Len(last.result) :
    \E j \in 1..Len(cache[LastTemplate]) : last.result[i] = cache[LastTemplate][j]

\* the rewrite of template puts no column in front, and a get served from the
\* cache for it returns rows as they are stored
NothingStripped(template) ==
  /\ template \in DOMAIN base_query_cache => base_query_cache[template].added_count = 0
  /\ (CacheHit /\ LastTemplate = template) => ~last.raised /\ RowsAsCached

FilterPredicates == {fNr, fNrLit, fNrUp, fNrUpLit, fNrQual, fNrTight, fLok, fLokLit}
OtherPredicates == {oG, oA, oStary}

\* the words of p follow one another in text
HasWords(text, p) ==
  LET ws == Words(text)
      pw == Words(p)
  IN \E i \in 1..(Len(ws) - Len(pw) + 1) : SubSeq(ws, i, i + Len(pw) - 1) = pw

\* an AND that joins nothing: first or last word of the condition
DanglingAnd(text) ==
  LET ws == Words(text)
      After(i) == IF i < Len(ws) THEN Lower(ws[i + 1]) ELSE <<>>
  IN \E i \in 1..Len(ws) :
       /\ Lower(ws[i]) = Lower(sAND)
       /\ \/ i = Len(ws)
          \/ After(i) \in {Lower(sAND), <<"o","r","d","e","r">>, <<"g","r","o","u","p">>}
          \/ Lower(ws[i - 1]) \in {Lower(sWHERE), Lower(sAND)}

(***************************************************************************)
(* C10  For every SELECT template whose WHERE conjunction has an entity or *)
(* location equality predicate, at any place and with or without ORDER BY  *)
(* after it, the base query has none of those predicates, no dangling AND  *)
(* and no 1=1 left, and has every other predicate of the template as it    *)
(* was.                                                                    *)
(***************************************************************************)
C10_FiltersRemovedCleanly ==
  \A template \in DOMAIN base_query_cache :
    LET base_q == base_query_cache[template].base_q
    IN (/\ ReMatch(<<Ws0, LitI(sSELECT)>>, template)
        /\ \E f \in FilterPredicates : Contains(template, f))
       => /\ \A f \in FilterPredicates : ~Contains(base_q, f)
          /\ ~DanglingAnd(base_q)
          /\ ~Contains(base_q, sOneEqOne)
          /\ \A p \in OtherPredicates : HasWords(template, p) => HasWords(base_q, p)

(***************************************************************************)
(* What the properties read off a SELECT DISTINCT.                         *)
(***************************************************************************)
\* the text begins with the keywords SELECT DISTINCT, in any case
BeginsSelectDistinct(text) == ReMatch(<<LitI(sSELECT), Ws1, LitI(sDISTINCT)>>, text)

\* the text begins with SELECT DISTINCT and n filter columns right after it
FrontAfterDistinct(text, n) ==
  \E cols \in {<<sNrUmowy>>, <<sNazwaSklepu>>, <<sNrUmowy, sNazwaSklepu>>} :
    /\ Len(cols) = n
    /\ ReMatch(<<LitI(sSELECT), Ws1, LitI(sDISTINCT), Ws1,
                 Lit(JoinWith(cols, sCommaSp) \o sCommaSp)>>, text)

(***************************************************************************)
(* C11  When the template begins with SELECT DISTINCT and the rewrite puts *)
(* filter columns in front (added_count > 0), the base query begins with   *)
(* SELECT DISTINCT and the added columns come right after the keyword      *)
(* DISTINCT, before the columns of the template.                           *)
(***************************************************************************)
C11_DistinctKeptInFront ==
  \A template \in DOMAIN base_query_cache :
    (BeginsSelectDistinct(template) /\ base_query_cache[template].added_count > 0)
    => FrontAfterDistinct(base_query_cache[template].base_q,
                          base_query_cache[template].added_count)

\* the rewrite of a lower-case, widely spaced select distinct: the keywords
\* are kept and the entity column follows them
C11_LowerDistinctRewritten ==
  /\ tLowerDistinct \in DOMAIN base_query_cache
  /\ base_query_cache[tLowerDistinct].base_q
       = sSelectDistinctSp \o sNrUmowy \o sCommaSp \o pAB \o sFromT

(***************************************************************************)
(* What the properties read off a template without filters.                *)
(***************************************************************************)
\* a character of a column name
IsNameChar(c) ==
  ToLower(c) \in {LowerOf[k] : k \in DOMAIN LowerOf}
                  \cup {DigitChars[i] : i \in 1..Len(DigitChars)} \cup {"_"}

\* the text has a quoted equality predicate on the column col (in any case,
\* qualified or not): <col> = '...' where col is the whole name
PredicateOn(col, text) ==
  \E i \in 1..Len(text) :
    /\ MatchFrom(FilterPredicate(col, TRUE), 1, text, i) # 0
    /\ i = 1 \/ ~IsNameChar(text[i - 1])

\* neither placeholder and no quoted equality predicate on the filter columns
NoFilters(template) ==
  /\ ~Contains(template, sPhNr) /\ ~Contains(template, sPhLok)
  /\ ~PredicateOn(sNrUmowy, template) /\ ~PredicateOn(sNazwaSklepu, template)

\* the rewrite that changes nothing
Unchanged(template) ==
  [base_q |-> template, nr_col |-> NoneCol, lok_col |-> NoneCol, added_count |-> 0]

\* the last call was a get that returned rows: from the cache of a template
\* whose statement prefetch had answered, or from its own answered statement
Answered ==
  \/ CacheHit /\ Fetched(LastTemplate)
  \/ DirectLookup /\ last.sent[1].ok

(***************************************************************************)
(* C12  A template with neither an entity nor a location filter is         *)
(* rewritten to (the template, None, None, 0), and a get on it returns,    *)
(* without raising, all the rows its query returns, with all their         *)
(* columns, whatever contract and shop are asked.                          *)
(***************************************************************************)
C12_NoFilterUnchanged ==
  \A t \in cfg :
    NoFilters(get_template_query(t)) =>
      /\ get_template_query(t) \in DOMAIN base_query_cache
           => base_query_cache[get_template_query(t)] = Unchanged(get_template_query(t))
      /\ (last.op = "get" /\ LastTemplate = get_template_query(t) /\ Answered)
           => /\ ~last.raised
              /\ last.result = Normalize(Answer(get_template_query(t)).rows)

\* a get for a contract and a shop served from the cache of the template
\* without a WHERE clause: all three rows of the table
C12_AllRowsServed ==
  /\ CacheHit /\ LastTemplate = T_all /\ Fetched(T_all)
  /\ last.nr = U1 /\ last.lok = S1
  /\ Len(last.result) = 3
  /\ base_query_cache[T_all] = Unchanged(T_all)

MaxTasks == 3

\* ReportType (report_types.py) as far as ACTIVE_TYPES names it
WYKONANIE_A_TYP_A_TYDZIEN == "wykonanie_grupa_a_typ_a_tydzien"
WYKONANIE_A_TYP_B_TYDZIEN == "wykonanie_grupa_a_typ_b_tydzien"

ACTIVE_TYPES == <<WYKONANIE_A_TYP_A_TYDZIEN, WYKONANIE_A_TYP_B_TYDZIEN>>

TYP_A_TYPES == SelectSeq(ACTIVE_TYPES, LAMBDA rt : rt \in {WYKONANIE_A_TYP_A_TYDZIEN})

TYP_B_TYPES == SelectSeq(ACTIVE_TYPES, LAMBDA rt : rt \in {WYKONANIE_A_TYP_B_TYDZIEN})

\* min(6, os.cpu_count() or 2) on a machine of two processors
MAX_WORKERS == 2

\* the contract numbers in the order of their first occurrence (seen_nr)
RECURSIVE Unseen(_, _)
Unseen(contracts, seen_nr) ==
  IF contracts = <<>> THEN <<>>
  ELSE IF Head(contracts) \in seen_nr THEN Unseen(Tail(contracts), seen_nr)
  ELSE <<Head(contracts)>> \o Unseen(Tail(contracts), seen_nr \cup {Head(contracts)})

RECURSIVE Chain(_)
Chain(lists) ==
  IF lists = <<>> THEN <<>> ELSE Head(lists) \o Chain(Tail(lists))

\* for rt in types: if rt in factory.configs: pdf_tasks.append((rt, nr, lok, ...))
TasksOf(types, loaded, nr, lok) ==
  Chain([i \in 1..Len(types) |->
           IF types[i] \in loaded THEN <<[rt |-> types[i], nr |-> nr, lok |-> lok]>>
           ELSE <<>>])

\* the tasks of the contracts: one per contract for the types of kind A, then
\* one per location of every contract for the types of kind B
EnumerateTasks(contracts, loaded, locations) ==
  LET Numbers(nrs) ==
        Chain([i \in 1..Len(nrs) |-> TasksOf(TYP_A_TYPES, loaded, nrs[i], None)])
        \o Chain([i \in 1..Len(nrs) |->
                    Chain([k \in 1..Len(locations[nrs[i]]) |->
                             TasksOf(TYP_B_TYPES, loaded, nrs[i], locations[nrs[i]][k])])])
  IN  Numbers(Unseen(contracts, {}))

\* lok or ''
OrEmpty(lok) == IF lok = None THEN <<>> ELSE lok

\* ReportFactory.build_report_payload: the payload of a task, free of the connection
build_report_payload(rt, nr, lok) ==
  [filename |-> <<rt, nr, OrEmpty(lok)>>, client_name |-> nr]

\* the ways the body of the try of one task ends: the payload and its record
\* are built from the cache, the building raises, or the payload is built and
\* the making of its record raises.  None sends a statement: the lookups of a
\* task are served from the cache of the batch (report_factory.py, 340-341)
BuildOutcomes == {"built", "build raised", "record raised"}

\* the messages of the exceptions of a task
Messages == {"query failed"}

\* the record of a task whose payload was built
SuccessRow(task, payload) ==
  [plik |-> payload.filename, typ_raportu |-> task.rt, nr_umowy |-> task.nr,
   lokalizacja |-> OrEmpty(task.lok), klient |-> payload.client_name]

\* the record of a task whose payload was not built, or whose record raised
ErrorRow(task, e) ==
  [plik |-> "BLAD", typ_raportu |-> task.rt, nr_umowy |-> task.nr,
   lokalizacja |-> OrEmpty(task.lok), klient |-> <<>>, error |-> e]

\* a handler that prints the failure and records nothing
OnlyPrinted(rows, task, e) == rows

\* except Exception as e, in the loop of the payloads
BuildFailed(rows, task, e) == Append(rows, ErrorRow(task, e))

\* a close that leaves the connection as it is
LeaveOpen(owns, connection) == connection

\* a close that does not ask whose connection it is
CloseAnyway(owns, connection) == IF connection = "open" THEN "closed" ELSE connection

\* ReportFactory.close (lines 281-285)
close(owns, connection) ==
  IF owns /\ connection = "open" THEN "closed" ELSE connection

\* the calls of connection.close() after a call of close()
CloseCalls(owns, connection, closes) ==
  IF close(owns, connection) # connection THEN closes + 1 ELSE closes

\* _get_connection (lines 276-278): a connection the factory opens is its own
Owns(owns, connection) == owns \/ connection = "none"

\* the lists of distinct locations of a contract
LocationLists ==
  {l \in ListsOf({S1, S2}, MaxList) : \A i, j \in 1..Len(l) : l[i] = l[j] => i = j}

InitRun ==
  /\ cfg = {}
  /\ db = <<>>
  /\ InitCache
  /\ pc = "start"
  /\ conn = "none"
  /\ db_calls = 0
  /\ pdf_tasks = <<>>
  /\ idx = 0
  /\ payloads = <<>>
  /\ csv_log_rows = <<>>
  /\ futures = <<>>
  /\ processed = {}
  /\ all_generated = <<>>
  /\ log_file = <<>>
  /\ configs = <<>>
  /\ report = [op |-> "none"]
  /\ factory_cache = "None"
  /\ owns_connection = (conn = "none")
  /\ connection_closes = 0

\* the factory, the contracts, the tasks and the prefetch of the batch
Startup ==
  /\ pc = "start"
  /\ \E contracts \in ListsOf({U1, U2}, MaxList),
        loaded \in SUBSET {WYKONANIE_A_TYP_A_TYDZIEN, WYKONANIE_A_TYP_B_TYDZIEN},
        locations \in [{U1, U2} -> LocationLists] :
        /\ Len(EnumerateTasks(contracts, loaded, locations)) <= MaxTasks
        /\ pc' = "build"
        /\ conn' = "open"
        /\ db_calls' = db_calls + 1
        /\ pdf_tasks' = EnumerateTasks(contracts, loaded, locations)
        /\ idx' = 1
  /\ owns_connection' = Owns(owns_connection, conn)
  /\ UNCHANGED <<payloads, csv_log_rows, futures, processed, all_generated, log_file>>
  /\ UNCHANGED <<cacheVars, configs, report, factory_cache, connection_closes>>

\* an exception before the payloads: the outer handler, then finally
StartupFails ==
  /\ pc = "start"
  /\ \E connected \in BOOLEAN :
        LET Finally(connection) ==
              /\ conn' = close(owns_connection, connection)
              /\ connection_closes' = CloseCalls(owns_connection, connection,
                                                 connection_closes)
        IN  /\ Finally(IF connected THEN "open" ELSE "none")
            /\ db_calls' = db_calls + (IF connected THEN 1 ELSE 0)
  /\ pc' = "aborted"
  /\ UNCHANGED <<pdf_tasks, idx, payloads, csv_log_rows, futures, processed,
                 all_generated, log_file>>
  /\ UNCHANGED <<cacheVars, configs, report, factory_cache, owns_connection>>

\* one turn of the loop of the payloads
BuildPayload ==
  /\ pc = "build"
  /\ idx <= Len(pdf_tasks)
  /\ \E outcome \in BuildOutcomes, e \in Messages :
        LET Turn(task, payload) ==
              /\ payloads' = IF outcome = "build raised" THEN payloads
                             ELSE Append(payloads, <<payload, task>>)
              /\ csv_log_rows' = IF outcome = "built"
                                 THEN Append(csv_log_rows, SuccessRow(task, payload))
                                 ELSE BuildFailed(csv_log_rows, task, e)
        IN  Turn(pdf_tasks[idx],
                 build_report_payload(pdf_tasks[idx].rt, pdf_tasks[idx].nr,
                                      pdf_tasks[idx].lok))
  /\ idx' = idx + 1
  /\ UNCHANGED <<pc, conn, db_calls, pdf_tasks, futures, processed, all_generated,
                 log_file>>
  /\ UNCHANGED <<cacheVars, reportVars>>

\* factory.close() after the loop of the payloads
CloseFactory ==
  /\ pc = "build"
  /\ idx > Len(pdf_tasks)
  /\ conn' = close(owns_connection, conn)
  /\ connection_closes' = CloseCalls(owns_connection, conn, connection_closes)
  /\ pc' = "submit"
  /\ UNCHANGED <<db_calls, pdf_tasks, idx, payloads, csv_log_rows, futures, processed,
                 all_generated, log_file>>
  /\ UNCHANGED <<cacheVars, configs, report, factory_cache, owns_connection>>

\* pool.submit of every payload
Submit ==
  /\ pc = "submit"
  /\ futures' = [i \in 1..Len(payloads) |-> "pending"]
  /\ pc' = "collect"
  /\ UNCHANGED <<conn, db_calls, pdf_tasks, idx, payloads, csv_log_rows, processed,
                 all_generated, log_file>>
  /\ UNCHANGED <<cacheVars, reportVars>>

\* the render tasks that hold a process of the pool
Busy == {i \in 1..Len(futures) : futures[i] \in {"running", "hung"}}

\* a free process of the pool takes the oldest pending render task
WorkerStart ==
  /\ pc = "collect"
  /\ Cardinality(Busy) < MAX_WORKERS
  /\ \E i \in 1..Len(futures) :
        /\ futures[i] = "pending"
        /\ \A j \in 1..(i - 1) : futures[j] # "pending"
        /\ futures' = [futures EXCEPT ![i] = "running"]
  /\ UNCHANGED <<pc, conn, db_calls, pdf_tasks, idx, payloads, csv_log_rows, processed,
                 all_generated, log_file>>
  /\ UNCHANGED <<cacheVars, reportVars>>

\* _render_pdf_task returns the path of the document, or raises
WorkerFinish ==
  /\ pc = "collect"
  /\ \E i \in 1..Len(futures), outcome \in {"done", "raised"} :
        /\ futures[i] = "running"
        /\ futures' = [futures EXCEPT ![i] = outcome]
  /\ UNCHANGED <<pc, conn, db_calls, pdf_tasks, idx, payloads, csv_log_rows, processed,
                 all_generated, log_file>>
  /\ UNCHANGED <<cacheVars, reportVars>>

\* _render_pdf_task never returns
WorkerHangs ==
  /\ pc = "collect"
  /\ \E i \in 1..Len(futures) :
        /\ futures[i] = "running"
        /\ futures' = [futures EXCEPT ![i] = "hung"]
  /\ UNCHANGED <<pc, conn, db_calls, pdf_tasks, idx, payloads, csv_log_rows, processed,
                 all_generated, log_file>>
  /\ UNCHANGED <<cacheVars, reportVars>>

\* the messages of the exceptions of a render task
RenderMessages == {"render failed"}

\* except Exception as e, in the loop of the results: the failure is printed
RenderFailed(rows, i, e) == rows

\* one turn of for future in as_completed(futures)
Collect ==
  /\ pc = "collect"
  /\ \E i \in 1..Len(futures), e \in RenderMessages :
        /\ i \notin processed
        /\ futures[i] \in {"done", "raised"}
        /\ processed' = processed \cup {i}
        /\ all_generated' = IF futures[i] = "done"
                            THEN Append(all_generated, payloads[i][1].filename)
                            ELSE all_generated
        /\ csv_log_rows' = IF futures[i] = "done" THEN csv_log_rows
                           ELSE RenderFailed(csv_log_rows, i, e)
  /\ UNCHANGED <<pc, conn, db_calls, pdf_tasks, idx, payloads, futures, log_file>>
  /\ UNCHANGED <<cacheVars, reportVars>>

\* as_completed has yielded every future, the pool is left, the log is written
WriteLog ==
  /\ pc = "collect"
  /\ processed = 1..Len(futures)
  /\ log_file' = IF csv_log_rows # <<>> THEN csv_log_rows ELSE log_file
  /\ pc' = "done"
  /\ UNCHANGED <<conn, db_calls, pdf_tasks, idx, payloads, csv_log_rows, futures, processed,
                 all_generated>>
  /\ UNCHANGED <<cacheVars, reportVars>>

NextRun ==
  \/ Startup
  \/ StartupFails
  \/ BuildPayload
  \/ CloseFactory
  \/ Submit
  \/ WorkerStart
  \/ WorkerFinish
  \/ WorkerHangs
  \/ Collect
  \/ WriteLog

SpecRun == InitRun /\ [][NextRun]_vars

\* the run under its scheduling: the driver is one thread that takes its next
\* step, a free process of the pool takes a pending task, and a render task
\* that does not hang returns or raises
FairRun ==
  /\ InitRun
  /\ [][NextRun]_vars
  /\ WF_vars(Startup \/ StartupFails)
  /\ WF_vars(BuildPayload)
  /\ WF_vars(CloseFactory)
  /\ WF_vars(Submit)
  /\ WF_vars(WorkerStart)
  /\ WF_vars(WorkerFinish)
  /\ WF_vars(Collect)
  /\ WF_vars(WriteLog)

\* ---------------------------------------------------------------------------
\* The claims about the generation run
\* ---------------------------------------------------------------------------

\* a render task has been handed to a process of the pool
RenderingStarted(fs) == \E i \in 1..Len(fs) : fs[i] # "pending"

\* C14: the phases of a run are ordered: the connection is closed only after
\* the payload of every task was attempted, no render task starts before the
\* connection is closed, and once rendering has started no step of the run
\* sends a query to the database.
C14_PhasesOrdered ==
  [][/\ (conn # "closed" /\ conn' = "closed" /\ pc' # "aborted") =>
           (idx > Len(pdf_tasks) /\ Len(csv_log_rows) = Len(pdf_tasks))
     /\ RenderingStarted(futures') => conn' = "closed"
     /\ RenderingStarted(futures) => (db_calls' = db_calls /\ conn' = "closed")]_vars

\* a render task runs after a run of three tasks that has asked the database
C14_RenderAfterClose ==
  /\ pc = "collect"
  /\ \E i \in 1..Len(futures) : futures[i] = "running"
  /\ conn = "closed"
  /\ Len(pdf_tasks) = 3
  /\ db_calls = 1

\* the render tasks that never complete
Hung == {i \in 1..Len(futures) : futures[i] = "hung"}

\* C15: one render task that never completes does not stall the run: in every
\* run in which at most one render task hangs, the driver eventually has taken
\* the result of every other render task, has written the log and has ended.
C15_HungRenderDoesNotStall ==
  [](Cardinality(Hung) <= 1) =>
     <>(/\ pc \in {"done", "aborted"}
        /\ pc = "done" => (1..Len(futures)) \ Hung \subseteq processed)

\* the driver waits on one hung render task after it took every other result
C15_WaitsOnHung ==
  /\ pc = "collect"
  /\ Len(futures) = 3
  /\ Cardinality(Hung) = 1
  /\ processed = (1..Len(futures)) \ Hung

\* the record is the one of the task
RecordOf(row, task) ==
  /\ row.typ_raportu = task.rt
  /\ row.nr_umowy = task.nr
  /\ row.lokalizacja = OrEmpty(task.lok)

\* a record of success: the file of the payload and no error
IsSuccessRecord(row, task) ==
  /\ "error" \notin DOMAIN row
  /\ row.plik = build_report_payload(task.rt, task.nr, task.lok).filename

\* a record of failure: it carries the message of the error
IsErrorRecord(row) ==
  /\ "error" \in DOMAIN row
  /\ row.error \in Messages

\* C16: a failure while the payload of one task is built does not abort the
\* run: once the payload loop is left the payload of every enumerated task was
\* attempted, and the log written at the end holds exactly one record per task,
\* in the order of the tasks, each a record of success or a record of failure
\* with the message of the error.
C16_OneRecordPerTask ==
  /\ pc \in {"submit", "collect", "done"} =>
        (idx = Len(pdf_tasks) + 1 /\ Len(csv_log_rows) = Len(pdf_tasks))
  /\ pc = "done" =>
        /\ Len(log_file) = Len(pdf_tasks)
        /\ \A i \in 1..Len(pdf_tasks) :
              /\ RecordOf(log_file[i], pdf_tasks[i])
              /\ IsSuccessRecord(log_file[i], pdf_tasks[i]) \/ IsErrorRecord(log_file[i])

\* a run of three tasks has ended; the payload of the first task failed and
\* the payloads of the later tasks were built
C16_FailureThenSuccess ==
  /\ pc = "done"
  /\ Len(pdf_tasks) = 3
  /\ IsErrorRecord(log_file[1])
  /\ Len(payloads) = 2
  /\ IsSuccessRecord(log_file[2], pdf_tasks[2])
  /\ IsSuccessRecord(log_file[3], pdf_tasks[3])

\* the record of the log for the task of payload i
LoggedFor(i) ==
  log_file[CHOOSE j \in 1..Len(pdf_tasks) : pdf_tasks[j] = payloads[i][2]]

\* C17: a render task that raises fails alone: the result of every other render
\* task is taken, and the record of the failed task in the log carries the
\* error of the renderer instead of reporting a success.
C17_RenderFailureLogged ==
  pc = "done" =>
     /\ processed = 1..Len(futures)
     /\ \A i \in 1..Len(futures) :
           futures[i] = "raised" =>
              /\ "error" \in DOMAIN LoggedFor(i)
              /\ LoggedFor(i).error \in RenderMessages

\* a run has ended in which one render task raised and another returned its
\* document; the log reports the failed task as a success
C17_RaisedLoggedAsSuccess ==
  /\ pc = "done"
  /\ \E i, j \in 1..Len(futures) :
        /\ futures[i] = "raised"
        /\ futures[j] = "done"
        /\ IsSuccessRecord(LoggedFor(i), payloads[i][2])
  /\ Len(all_generated) = Len(futures) - 1

\* ---------------------------------------------------------------------------
\* ReportFactory: the generation of reports (report_factory.py, lines 336-578)
\* ---------------------------------------------------------------------------

\* the most labels of a summary and the most cells of a row
MaxLabels == 2
MaxCells == 2

\* config['summary']['labels']: the first labels of a summary
Labels == <<"Klient", "Okres", "Kwota", "Saldo">>

LabelLists == {SubSeq(Labels, 1, k) : k \in 0..MaxLabels}

\* a configuration: the labels of its summary and the number of its data tables
ConfigOf(labels) == [labels |-> labels, data_tables |-> 1]

\* self.configs after _load_all_configs: the report types whose file exists
ConfigSets ==
  UNION {[types -> {ConfigOf(l) : l \in LabelLists}] :
           types \in SUBSET {WYKONANIE_A_TYP_A_TYDZIEN, WYKONANIE_A_TYP_B_TYDZIEN}}

\* the rows a query answers with: cells already turned into text
CellTexts == {<<>>, <<"A">>}

RowTexts == ListsOf(CellTexts, MaxCells)

\* the results of _execute_query on the summary query: no row, one row, or a
\* row followed by another
SummaryResults ==
  {<<>>} \cup {<<r>> : r \in RowTexts} \cup {<<r, <<<<"B">>>>>> : r \in RowTexts}

\* a summary that pairs labels and cells as zip does: it ends with the shorter
zip_summary(labels, rows) ==
  IF rows = <<>> THEN [i \in 1..Len(labels) |-> <<labels[i], <<>>>>]
  ELSE [i \in 1..(IF Len(rows[1]) < Len(labels) THEN Len(rows[1]) ELSE Len(labels)) |->
          <<labels[i], rows[1][i]>>]

\* ReportFactory._fetch_summary, on the rows of its query
fetch_summary(labels, rows) ==
  IF rows = <<>> THEN [i \in 1..Len(labels) |-> <<labels[i], <<>>>>]
  ELSE [i \in 1..Len(labels) |->
          <<labels[i], IF i <= Len(rows[1]) THEN rows[1][i] ELSE <<>>>>]

\* client_name = summary_data[0][1] if summary_data and len(summary_data[0]) > 1 else str(nr)
client_name(summary_data, nr) ==
  IF summary_data # <<>> /\ Len(summary_data[1]) > 1 THEN summary_data[1][2]
  ELSE Str(nr)

\* ReportFactory._get_connection
get_connection(connection) == IF connection = "none" THEN "open" ELSE connection

\* the places where a request for a report may fail
Failures == {"none", "summary", "table", "pdf"}

\* what a request gave: how it ended, the queries it sent, the connection
\* after it, and the summary, the name and the path as far as it got
Gave(outcome, queries, connection, summary_data, name, path) ==
  [outcome |-> outcome, queries |-> queries, conn |-> connection,
   summary_data |-> summary_data, client_name |-> name, path |-> path]

\* a request that takes the connection before it looks for the configuration
ConnectsFirst(connection) ==
  Gave("ValueError", 0, get_connection(connection), <<>>, <<>>, <<>>)

\* raise ValueError(f"Brak konfiguracji: ...")
Unconfigured(connection) ==
  Gave("ValueError", 0, connection, <<>>, <<>>, <<>>)

\* ReportFactory.generate_report without a batch: rows is the result of the
\* summary query and failure the place where the database or the renderer raises
generate_report(cfgs, connection, report_type, nr, lok, rows, failure) ==
  LET Rendered(summary_data, tables) ==
        IF failure = "pdf"
        THEN Gave("raised", 1 + tables, "open", summary_data,
                  client_name(summary_data, nr), <<>>)
        ELSE Gave("returned", 1 + tables, "open", summary_data,
                  client_name(summary_data, nr), <<report_type, nr, OrEmpty(lok)>>)
      Tables(summary_data, tables) ==
        IF failure = "table" /\ tables > 0
        THEN Gave("raised", 2, "open", summary_data, client_name(summary_data, nr), <<>>)
        ELSE Rendered(summary_data, tables)
      Summary(config) ==
        IF failure = "summary"
        THEN Gave("raised", 1, get_connection(connection), <<>>, <<>>, <<>>)
        ELSE Tables(fetch_summary(config.labels, rows), config.data_tables)
  IN  IF report_type \notin DOMAIN cfgs THEN Unconfigured(connection)
      ELSE Summary(cfgs[report_type])

\* the report types with one report per location
PerLocation == {WYKONANIE_A_TYP_B_TYDZIEN}

\* list(self.configs.keys()): the loaded types in the order of the enumeration
LoadedTypes(cfgs) == SelectSeq(ACTIVE_TYPES, LAMBDA rt : rt \in DOMAIN cfgs)

\* the reports of one type in generate_all_for_nr: fails tells the types whose
\* summary query raises; acc is (generated, queries, connection)
RECURSIVE ForLocations(_, _, _, _, _, _)
ForLocations(cfgs, rt, nr, locations, fails, acc) ==
  IF locations = <<>> THEN acc
  ELSE LET Added(r) ==
             [generated |-> IF r.outcome = "returned" THEN Append(acc.generated, r.path)
                            ELSE acc.generated,
              queries |-> acc.queries + r.queries,
              conn |-> r.conn]
       IN  ForLocations(cfgs, rt, nr, Tail(locations), fails,
             Added(generate_report(cfgs, acc.conn, rt, nr, Head(locations), <<>>,
                                   IF rt \in fails THEN "summary" ELSE "none")))

\* the loop of generate_all_for_nr over the types
RECURSIVE ForTypes(_, _, _, _, _, _)
ForTypes(cfgs, nr, types, locations, fails, acc) ==
  IF types = <<>> THEN acc
  ELSE IF Head(types) \notin DOMAIN cfgs
  THEN ForTypes(cfgs, nr, Tail(types), locations, fails, acc)
  ELSE IF Head(types) \in PerLocation
  THEN ForTypes(cfgs, nr, Tail(types), locations, fails,
         ForLocations(cfgs, Head(types), nr, locations, fails,
           [acc EXCEPT !.queries = @ + 1, !.conn = get_connection(acc.conn)]))
  ELSE ForTypes(cfgs, nr, Tail(types), locations, fails,
         ForLocations(cfgs, Head(types), nr, <<None>>, fails, acc))

\* ReportFactory.generate_all_for_nr without a batch
generate_all_for_nr(cfgs, connection, nr, report_types, locations, fails) ==
  ForTypes(cfgs, nr, IF report_types # <<>> THEN report_types ELSE LoadedTypes(cfgs),
           locations, fails, [generated |-> <<>>, queries |-> 0, conn |-> connection])

\* a factory after __init__ (no connection yet) or after earlier requests (its
\* connection is open); what a request gives depends on this state alone, so
\* every behaviour makes one request
InitReport ==
  /\ cfg = {}
  /\ db = <<>>
  /\ InitCache
  /\ pc = "none"
  /\ conn \in {"none", "open"}
  /\ db_calls = 0
  /\ pdf_tasks = <<>>
  /\ idx = 0
  /\ payloads = <<>>
  /\ csv_log_rows = <<>>
  /\ futures = <<>>
  /\ processed = {}
  /\ all_generated = <<>>
  /\ log_file = <<>>
  /\ configs \in ConfigSets
  /\ report = [op |-> "none"]
  /\ factory_cache = "None"
  /\ owns_connection = (conn = "none")
  /\ connection_closes = 0

\* a call of generate_report
GenerateReport ==
  /\ report.op = "none"
  /\ \E report_type \in {WYKONANIE_A_TYP_A_TYDZIEN, WYKONANIE_A_TYP_B_TYDZIEN},
        lok \in {None, S1}, rows \in SummaryResults, failure \in Failures :
        LET Called(r) ==
              /\ report' = [op |-> "generate_report", rt |-> report_type, nr |-> U1,
                            lok |-> lok, rows |-> rows, failure |-> failure,
                            before |-> conn, gave |-> r]
              /\ conn' = r.conn
              /\ owns_connection' = Owns(owns_connection, conn)
        IN  /\ failure # "none" => rows = <<>>
            /\ Called(generate_report(configs, conn, report_type, U1, lok, rows, failure))
  /\ UNCHANGED <<pc, db_calls, pdf_tasks, idx, payloads, csv_log_rows, futures, processed,
                 all_generated, log_file, configs, factory_cache, connection_closes>>
  /\ UNCHANGED cacheVars

\* a call of generate_all_for_nr
GenerateAllForNr ==
  /\ report.op = "none"
  /\ \E report_types \in ListsOf({WYKONANIE_A_TYP_A_TYDZIEN, WYKONANIE_A_TYP_B_TYDZIEN}, MaxList),
        locations \in LocationLists,
        fails \in SUBSET {WYKONANIE_A_TYP_A_TYDZIEN, WYKONANIE_A_TYP_B_TYDZIEN} :
        LET Called(r) ==
              /\ report' = [op |-> "generate_all_for_nr", nr |-> U1, types |-> report_types,
                            locations |-> locations, fails |-> fails,
                            before |-> conn, gave |-> r]
              /\ conn' = r.conn
              /\ owns_connection' = Owns(owns_connection, conn)
        IN  Called(generate_all_for_nr(configs, conn, U1, report_types, locations, fails))
  /\ UNCHANGED <<pc, db_calls, pdf_tasks, idx, payloads, csv_log_rows, futures, processed,
                 all_generated, log_file, configs, factory_cache, connection_closes>>
  /\ UNCHANGED cacheVars

NextReport == GenerateReport \/ GenerateAllForNr

SpecReport == InitReport /\ [][NextReport]_vars

\* ---------------------------------------------------------------------------
\* The claims about the generation of reports
\* ---------------------------------------------------------------------------

\* the paths of the reports of a type for the contract of the request
PathsOf(rt, nr, locations) ==
  IF rt \in PerLocation THEN {<<rt, nr, locations[k]>> : k \in 1..Len(locations)}
  ELSE {<<rt, nr, <<>>>>}

\* the types generate_all_for_nr goes through
TypesAsked == IF report.types # <<>> THEN report.types ELSE LoadedTypes(configs)

\* C18: a request for a report of a type without a loaded configuration fails
\* with the error of the missing configuration before the database is touched:
\* it sends no query and leaves the connection as it was (none is opened); in
\* generate_all_for_nr a type without configuration sends no query either, and
\* the reports of every other type whose queries succeed are generated.
C18_UnconfiguredFailsBeforeDatabase ==
  /\ (report.op = "generate_report" /\ report.rt \notin DOMAIN configs) =>
        /\ report.gave.outcome = "ValueError"
        /\ report.gave.queries = 0
        /\ report.gave.conn = report.before
        /\ conn = report.before
  /\ report.op = "generate_all_for_nr" =>
        /\ \A i \in 1..Len(TypesAsked) :
              (TypesAsked[i] \in DOMAIN configs /\ TypesAsked[i] \notin report.fails) =>
                 \A path \in PathsOf(TypesAsked[i], report.nr, report.locations) :
                    \E k \in 1..Len(report.gave.generated) : report.gave.generated[k] = path
        /\ (\A i \in 1..Len(TypesAsked) : TypesAsked[i] \notin DOMAIN configs) =>
              (report.gave.queries = 0 /\ conn = report.before)

\* a report of a type without configuration was requested from a factory that
\* has a configuration of another type and no connection yet
C18_UnconfiguredRequested ==
  /\ report.op = "generate_report"
  /\ report.rt \notin DOMAIN configs
  /\ DOMAIN configs # {}
  /\ report.before = "none"

\* the request was a generate_report of a configured type that got its summary
SummaryFetched ==
  /\ report.op = "generate_report"
  /\ report.rt \in DOMAIN configs
  /\ report.failure # "summary"

\* C19: the summary of a report has exactly one (label, value) pair per
\* configured label, in the order of the labels: the value of pair i is cell i
\* of the first row of the summary query, the empty string if that row has
\* fewer than i cells or if the query gave no row; further cells and further
\* rows are ignored.
C19_SummaryPairsPerLabel ==
  SummaryFetched =>
     LET labels == configs[report.rt].labels
         summary_data == report.gave.summary_data
     IN  /\ Len(summary_data) = Len(labels)
         /\ \A i \in 1..Len(labels) :
               /\ Len(summary_data[i]) = 2
               /\ summary_data[i][1] = labels[i]
               /\ summary_data[i][2] =
                     IF report.rows # <<>> /\ i <= Len(report.rows[1])
                     THEN report.rows[1][i] ELSE <<>>

\* a report of two labels was generated from a summary row of one cell
C19_ShortRowPadded ==
  /\ SummaryFetched
  /\ report.gave.outcome = "returned"
  /\ Len(configs[report.rt].labels) = 2
  /\ report.rows = <<<<<<"A">>>>>>
  /\ report.gave.summary_data[2][2] = <<>>

\* the summary has no value for its first pair: the query gave no row, or the
\* configuration has no label
NoFirstValue ==
  report.rows = <<>> \/ configs[report.rt].labels = <<>>

\* C20: the client name of a report is the second cell of the first pair of the
\* summary, and it is the entity number str(nr) whenever the summary has no
\* value for the first pair (no row returned, or no label).
C20_NameFallsBackWithoutValue ==
  (SummaryFetched /\ report.gave.outcome = "returned") =>
     report.gave.client_name =
        IF NoFirstValue THEN Str(report.nr) ELSE report.gave.summary_data[1][2]

\* a report with a label was generated although its summary query gave no row,
\* and its client name is the empty text
C20_EmptyNameWithoutRow ==
  /\ SummaryFetched
  /\ report.gave.outcome = "returned"
  /\ report.rows = <<>>
  /\ configs[report.rt].labels # <<>>
  /\ report.gave.client_name = <<>>

\* ---------------------------------------------------------------------------
\* The file name of a report (report_factory.py, lines 508-515)
\* ---------------------------------------------------------------------------

\* the most characters of an entity number and of a location
MaxName == 2

\* the characters of the entity numbers and of the locations
NrChars == {"U", "/", "\\"}
LokChars == {"S", " ", "/", "\\"}

\* safe_nr = str(nr).replace('/', '_').replace('\\', '_')
safe_nr(nr) == Replace(Replace(Str(nr), <<"/">>, <<"_">>), <<"\\">>, <<"_">>)

\* safe_lok = lokalizacja.replace(' ', '_').replace('/', '_')
safe_lok(lokalizacja) == Replace(Replace(lokalizacja, <<" ">>, <<"_">>), <<"/">>, <<"_">>)

\* the file name of generate_report; the value of the report type is one piece
filename(report_type, nr, lokalizacja) ==
  IF Truthy(lokalizacja)
  THEN <<report_type, "_">> \o safe_nr(nr) \o <<"_">> \o safe_lok(lokalizacja)
         \o <<".", "p", "d", "f">>
  ELSE <<report_type, "_">> \o safe_nr(nr) \o <<".", "p", "d", "f">>

\* the file name is derived once in every behaviour
InitFilename ==
  /\ cfg = {}
  /\ db = <<>>
  /\ InitCache
  /\ NoRun

\* the file name part of a call of generate_report
DeriveFilename ==
  /\ report.op = "none"
  /\ \E report_type \in {WYKONANIE_A_TYP_A_TYDZIEN, WYKONANIE_A_TYP_B_TYDZIEN},
        nr \in ListsOf(NrChars, MaxName) \ {<<>>},
        lok \in {None} \cup ListsOf(LokChars, MaxName) :
        report' = [op |-> "filename", rt |-> report_type, nr |-> nr, lok |-> lok,
                   filename |-> filename(report_type, nr, lok)]
  /\ UNCHANGED <<runVars, configs, factory_cache, owns_connection, connection_closes>>
  /\ UNCHANGED cacheVars

SpecFilename == InitFilename /\ [][DeriveFilename]_vars

\* C21: the file name of a report, which is derived from the report type, the
\* entity number and the location alone, contains neither '/' nor '\' whatever
\* the entity number and the location are.
C21_FilenameHasNoSeparator ==
  report.op = "filename" =>
     \A i \in 1..Len(report.filename) : report.filename[i] \notin {"/", "\\"}

\* the file name of a location with a backslash keeps the backslash, while the
\* slash of the entity number is replaced
C21_BackslashKept ==
  /\ report.op = "filename"
  /\ report.nr = <<"U", "/">>
  /\ report.lok = <<"S", "\\">>
  /\ report.filename =
       <<report.rt, "_", "U", "_", "_", "S", "\\", ".", "p", "d", "f">>

\* ---------------------------------------------------------------------------
\* Values and totals of the data tables (main.py, lines 144-190 and 377-498)
\* ---------------------------------------------------------------------------

\* str(value).replace(',', '.').replace(' ', ''): the text handed to float()
NumberText(value) == Replace(Replace(value, <<",">>, <<".">>), <<" ">>, <<>>)

IsDigit(c) == \E d \in 1..10 : DigitChars[d] = c

DigitValue(c) == (CHOOSE d \in 1..10 : DigitChars[d] = c) - 1

\* int(digits) for a text of digits; 0 for the empty text
RECURSIVE Natural(_)
Natural(digits) ==
  IF digits = <<>> THEN 0
  ELSE Natural(SubSeq(digits, 1, Len(digits) - 1)) * 10 + DigitValue(digits[Len(digits)])

\* the text without its sign
Unsigned(text) ==
  IF text # <<>> /\ text[1] \in {"+", "-"} THEN Tail(text) ELSE text

\* float(text) does not raise: a sign, digits and at most one point, with at
\* least one digit; the texts of the model have at most one digit after the point
Parses(text) ==
  LET Checked(u, points) ==
        /\ Cardinality(points) <= 1
        /\ Len(u) > Cardinality(points)
        /\ \A i \in 1..Len(u) : i \in points \/ IsDigit(u[i])
        /\ \A i \in points : Len(u) - i <= 1
      Body(u) == Checked(u, {i \in 1..Len(u) : u[i] = "."})
  IN  Body(Unsigned(text))

\* float(text), counted in tenths
Tenths(text) ==
  LET Magnitude(u, point) ==
        Natural(SubSeq(u, 1, point - 1)) * 10 + Natural(SubSeq(u, point + 1, Len(u)))
      Body(u) == Magnitude(u, Least({i \in 1..(Len(u) + 1) : i = Len(u) + 1 \/ u[i] = "."}))
  IN  IF text # <<>> /\ text[1] = "-" THEN 0 - Body(Unsigned(text))
      ELSE Body(Unsigned(text))

\* is_numeric
is_numeric(value) == Parses(NumberText(value))

\* float(str(value).replace(',', '.').replace(' ', '')), in tenths
to_float(value) == Tenths(NumberText(value))

Abs(x) == IF x < 0 THEN 0 - x ELSE x

\* str(x) for a float x of tenths: '30.5', '0.0', '-1.5'
FloatStr(x) ==
  (IF x < 0 THEN <<"-">> ELSE <<>>) \o Decimal(Abs(x) \div 10)
    \o <<".", DigitChars[(Abs(x) % 10) + 1]>>

\* the digits in groups of three, as the ',' of the format does
RECURSIVE Grouped(_, _)
Grouped(digits, sep) ==
  IF Len(digits) <= 3 THEN digits
  ELSE Grouped(SubSeq(digits, 1, Len(digits) - 3), sep) \o sep
         \o SubSeq(digits, Len(digits) - 2, Len(digits))

\* format_as_percentage: f"{num:.2f}%", or the text itself if it is no number
format_as_percentage(value) ==
  LET Shown(x) ==
        (IF x < 0 THEN <<"-">> ELSE <<>>) \o Decimal(Abs(x) \div 10)
          \o <<".", DigitChars[(Abs(x) % 10) + 1], "0", "%">>
  IN  IF is_numeric(value) THEN Shown(to_float(value)) ELSE value

\* format_as_currency: f"{num:,.2f}".replace(',', ' ').replace('.', ',') + " zł"
format_as_currency(value) ==
  LET Shown(x) ==
        (IF x < 0 THEN <<"-">> ELSE <<>>) \o Grouped(Decimal(Abs(x) \div 10), <<" ">>)
          \o <<",", DigitChars[(Abs(x) % 10) + 1], "0", " ", "z", "l">>
  IN  IF is_numeric(value) THEN Shown(to_float(value)) ELSE value

\* a result that is blank whenever the total is zero
BlankWhenZero(total, has_numbers) == IF total # 0 THEN FloatStr(total) ELSE <<>>

\* return str(total) if has_numbers else ''
SumResult(total, has_numbers) == IF has_numbers THEN FloatStr(total) ELSE <<>>

\* the loop of calculate_column_sum
RECURSIVE SumLoop(_, _, _, _)
SumLoop(data, col_index, total, has_numbers) ==
  IF data = <<>> THEN SumResult(total, has_numbers)
  ELSE IF col_index < Len(Head(data)) /\ is_numeric(Head(data)[col_index + 1])
  THEN SumLoop(Tail(data), col_index, total + to_float(Head(data)[col_index + 1]), TRUE)
  ELSE SumLoop(Tail(data), col_index, total, has_numbers)

calculate_column_sum(data, col_index) == SumLoop(data, col_index, 0, FALSE)

\* a maximum that is always replaced by the value met last
Latest(found, max_val, val) == val

\* if max_val is None or val > max_val: max_val = val
Larger(found, max_val, val) == IF ~found \/ val > max_val THEN val ELSE max_val

\* the loop of calculate_column_max; found: max_val is not None
RECURSIVE MaxLoop(_, _, _, _)
MaxLoop(data, col_index, max_val, found) ==
  IF data = <<>> THEN IF found THEN FloatStr(max_val) ELSE <<>>
  ELSE IF col_index < Len(Head(data)) /\ is_numeric(Head(data)[col_index + 1])
  THEN MaxLoop(Tail(data), col_index,
               Larger(found, max_val, to_float(Head(data)[col_index + 1])), TRUE)
  ELSE MaxLoop(Tail(data), col_index, max_val, found)

calculate_column_max(data, col_index) == MaxLoop(data, col_index, 0, FALSE)

\* Paragraph(str(value), style); style "" stands for a plain str in a cell
Paragraph(text, style) == [text |-> text, style |-> style]

\* ''
Blank == Paragraph(<<>>, "")

\* _wrap_cell
wrap_cell(value, style) == Paragraph(value, style)

\* _wrap_header, for a header of one word
wrap_header(value) == Paragraph(<<"<nobr>", value, "</nobr>">>, "TblHeader")

sSUMA == <<"S", "U", "M", "A">>

\* padded = (row + [''] * num_cols)[:num_cols]
Padded(row, num_cols) == SubSeq(row \o [k \in 1..num_cols |-> <<>>], 1, num_cols)

\* the cell of a data row in column i (from 0)
FormatCell(i, val, currency_columns, currency_columns_2, percentage_columns) ==
  IF i \in currency_columns /\ is_numeric(val)
  THEN wrap_cell(format_as_currency(val), "TblData")
  ELSE IF i \in currency_columns_2 /\ is_numeric(val)
  THEN wrap_cell(format_as_currency(val), "TblData")
  ELSE IF i \in percentage_columns /\ is_numeric(val)
  THEN wrap_cell(format_as_percentage(val), "TblData")
  ELSE IF i \notin currency_columns \cup percentage_columns \cup currency_columns_2
  THEN wrap_cell(val, "TblDataLeft")
  ELSE wrap_cell(val, "TblData")

\* the row of the table for a row of the data
DataRow(row, num_cols, currency_columns, currency_columns_2, percentage_columns) ==
  [k \in 1..num_cols |->
     FormatCell(k - 1, Padded(row, num_cols)[k],
                currency_columns, currency_columns_2, percentage_columns)]

\* the cell of the totals row in column ci
TotalCell(data, ci, currency_columns, currency_columns_2, percentage_columns) ==
  LET Maximum(s) ==
        IF s # <<>> THEN wrap_cell(format_as_percentage(s), "TblTotal") ELSE Blank
      Sum(s) ==
        IF s # <<>> /\ ci \in currency_columns
        THEN wrap_cell(format_as_currency(s), "TblTotal")
        ELSE IF s # <<>> THEN wrap_cell(s, "TblTotal")
        ELSE Blank
  IN  IF ci \in currency_columns_2 THEN Blank
      ELSE IF ci \in percentage_columns THEN Maximum(calculate_column_max(data, ci))
      ELSE Sum(calculate_column_sum(data, ci))

\* the totals row: the label, then one cell for every column from 1 on
TotalRow(data, num_cols, currency_columns, currency_columns_2, percentage_columns) ==
  <<wrap_cell(sSUMA, "TblTotalLabel")>>
    \o [k \in 1..(num_cols - 1) |->
          TotalCell(data, k, currency_columns, currency_columns_2, percentage_columns)]

\* create_large_table: the rows handed to Table and the flag handed to
\* get_large_table_style
\* a totals row whenever it is asked for
TotalsWhenAsked(add_total_row, data) == add_total_row

\* lines 461 and 495: `add_total_row and data`
WithTotals(add_total_row, data) == add_total_row /\ data # <<>>

create_large_table(title, headers, data, add_total_row, currency_columns, currency_columns_2, percentage_columns) ==
  [table_data |->
     <<(<<Paragraph(title, "")>> \o [k \in 1..(Len(headers) - 1) |-> Blank])>>
     \o <<[k \in 1..Len(headers) |-> wrap_header(headers[k])]>>
     \o [r \in 1..Len(data) |->
           DataRow(data[r], Len(headers),
                   currency_columns, currency_columns_2, percentage_columns)]
     \o (IF WithTotals(add_total_row, data)
         THEN <<TotalRow(data, Len(headers),
                         currency_columns, currency_columns_2, percentage_columns)>>
         ELSE <<>>)
     \o (IF data = <<>> THEN [k \in 1..3 |-> [c \in 1..Len(headers) |-> Blank]]
         ELSE <<>>),
   has_total_row |-> WithTotals(add_total_row, data)]

\* the most rows of the data of a table
MaxRows == 2

\* the headers of a table and the lists of headers of its first columns
Headers == <<"H0", "H1">>

HeaderLists == {SubSeq(Headers, 1, k) : k \in 1..Len(Headers)}

\* the cells of the data: a word, a number with a comma, a number with a
\* sign, a blank and a point
TableTexts == {<<"x">>, <<"1", ",", "5">>, <<"-", " ", "1", ".", "5">>}

\* the data of a table: rows of at most as many cells as there are headers
TableData == ListsOf(ListsOf(TableTexts, Len(Headers)), MaxRows)

\* the lists of columns of a table: currency_columns, currency_columns_2 and
\* percentage_columns, columns counted from 0
Formatting(currency_columns, currency_columns_2, percentage_columns) ==
  [currency_columns |-> currency_columns, currency_columns_2 |-> currency_columns_2,
   percentage_columns |-> percentage_columns]

Formattings ==
  {Formatting({}, {}, {}), Formatting({1}, {}, {}), Formatting({}, {1}, {}),
   Formatting({}, {}, {1}), Formatting({0, 1}, {}, {}), Formatting({0}, {}, {1}),
   Formatting({}, {1}, {1}), Formatting({1}, {}, {1})}

\* the functions of the tables are applied once in every behaviour
InitTable ==
  /\ cfg = {}
  /\ db = <<>>
  /\ InitCache
  /\ NoRun

\* a call of calculate_column_sum
ColumnSum ==
  /\ report.op = "none"
  /\ \E data \in TableData, col_index \in 0..Len(Headers) :
        report' = [op |-> "calculate_column_sum", data |-> data, col_index |-> col_index,
                   gave |-> calculate_column_sum(data, col_index)]
  /\ UNCHANGED <<runVars, configs, factory_cache, owns_connection, connection_closes>>
  /\ UNCHANGED cacheVars

\* a call of calculate_column_max
ColumnMax ==
  /\ report.op = "none"
  /\ \E data \in TableData, col_index \in 0..Len(Headers) :
        report' = [op |-> "calculate_column_max", data |-> data, col_index |-> col_index,
                   gave |-> calculate_column_max(data, col_index)]
  /\ UNCHANGED <<runVars, configs, factory_cache, owns_connection, connection_closes>>
  /\ UNCHANGED cacheVars

\* a call of create_large_table
CreateLargeTable ==
  /\ report.op = "none"
  /\ \E headers \in HeaderLists, data \in TableData, add_total_row \in BOOLEAN,
        fmt \in Formattings :
        report' = [op |-> "create_large_table", headers |-> headers, data |-> data,
                   add_total_row |-> add_total_row,
                   currency_columns |-> fmt.currency_columns,
                   currency_columns_2 |-> fmt.currency_columns_2,
                   percentage_columns |-> fmt.percentage_columns,
                   gave |-> create_large_table(<<"T">>, headers, data, add_total_row,
                              fmt.currency_columns, fmt.currency_columns_2,
                              fmt.percentage_columns)]
  /\ UNCHANGED <<runVars, configs, factory_cache, owns_connection, connection_closes>>
  /\ UNCHANGED cacheVars

NextTable == ColumnSum \/ ColumnMax \/ CreateLargeTable

SpecTable == InitTable /\ [][NextTable]_vars

\* ---------------------------------------------------------------------------
\* The claims about the totals and the rows of the tables
\* ---------------------------------------------------------------------------

\* the rows that have a numeric cell in the column
NumericRows(data, col_index) ==
  {r \in 1..Len(data) : col_index < Len(data[r]) /\ is_numeric(data[r][col_index + 1])}

\* the sum of the cells of the column in the rows of the set, in tenths
RECURSIVE SumOfRows(_, _, _)
SumOfRows(data, col_index, rows) ==
  IF rows = {} THEN 0
  ELSE LET r == CHOOSE x \in rows : TRUE
       IN  to_float(data[r][col_index + 1]) + SumOfRows(data, col_index, rows \ {r})

\* the totals row of the table of the last call, if it has one
HasTotals == report.op = "create_large_table" /\ report.gave.has_total_row

TotalsRow == report.gave.table_data[Len(report.gave.table_data)]

\* C22: calculate_column_sum gives the sum of the numeric cells of the column,
\* passing over the cells that are no numbers and the rows too short for the
\* column; it gives the empty text exactly when the column has no numeric
\* cell, so a sum of zero is the text of zero and not blank, and in the totals
\* row of a table the cell of a summed column is blank exactly when the column
\* has no numeric cell.
C22_SumBlankOnlyWithoutNumbers ==
  /\ report.op = "calculate_column_sum" =>
        /\ report.gave = <<>> <=> NumericRows(report.data, report.col_index) = {}
        /\ NumericRows(report.data, report.col_index) # {} =>
              report.gave =
                 FloatStr(SumOfRows(report.data, report.col_index,
                                    NumericRows(report.data, report.col_index)))
  /\ HasTotals =>
        \A ci \in 1..(Len(report.headers) - 1) :
           ci \notin report.currency_columns_2 \cup report.percentage_columns =>
              (TotalsRow[ci + 1] = Blank <=> NumericRows(report.data, ci) = {})

\* the sum of a column whose two numbers cancel is the text 0.0
C22_SumOfZero ==
  /\ report.op = "calculate_column_sum"
  /\ Cardinality(NumericRows(report.data, report.col_index)) = 2
  /\ report.gave = <<"0", ".", "0">>

\* the largest of the cells of the column in the rows of the set, in tenths
MaxOfRows(data, col_index, rows) ==
  CHOOSE v \in {to_float(data[r][col_index + 1]) : r \in rows} :
    \A r \in rows : to_float(data[r][col_index + 1]) <= v

\* the cell of the totals row that shows the maximum of column ci
ShowsMaximum(ci) ==
  IF NumericRows(report.data, ci) = {} THEN TotalsRow[ci + 1] = Blank
  ELSE TotalsRow[ci + 1].text =
         format_as_percentage(
           FloatStr(MaxOfRows(report.data, ci, NumericRows(report.data, ci))))

\* the cell of the totals row that shows the sum of column ci
ShowsSum(ci) ==
  IF NumericRows(report.data, ci) = {} THEN TotalsRow[ci + 1] = Blank
  ELSE TotalsRow[ci + 1].text =
         IF ci \in report.currency_columns
         THEN format_as_currency(
                FloatStr(SumOfRows(report.data, ci, NumericRows(report.data, ci))))
         ELSE FloatStr(SumOfRows(report.data, ci, NumericRows(report.data, ci)))

\* C23 as claimed: in the totals row the cell of every percentage column is
\* the maximum of the numeric cells of the column, blank if there is none, and
\* the cell of every other column but column 0 is their sum.
C23_MaxForPercentageSumForOthers ==
  HasTotals =>
     \A ci \in 1..(Len(report.headers) - 1) :
        IF ci \in report.percentage_columns THEN ShowsMaximum(ci) ELSE ShowsSum(ci)

\* C23 as amended: in the totals row the cell of a column of currency_columns_2
\* is blank; the cell of any other percentage column is the maximum of the
\* numeric cells of the column, blank if there is none; the cell of every
\* other column but column 0 is their sum.
C23_MaxOrSumUnlessSecondCurrency ==
  HasTotals =>
     \A ci \in 1..(Len(report.headers) - 1) :
        IF ci \in report.currency_columns_2 THEN TotalsRow[ci + 1] = Blank
        ELSE IF ci \in report.percentage_columns THEN ShowsMaximum(ci)
        ELSE ShowsSum(ci)

\* the totals row of a percentage column with the cells 1,5 and - 1.5, in this
\* order, shows 1.50%: the maximum, not the sum and not the last value
C23_MaximumShown ==
  /\ HasTotals
  /\ Len(report.headers) = 2
  /\ 1 \in report.percentage_columns \ report.currency_columns_2
  /\ Len(report.data) = 2
  /\ Len(report.data[1]) = 2 /\ report.data[1][2] = <<"1", ",", "5">>
  /\ Len(report.data[2]) = 2 /\ report.data[2][2] = <<"-", " ", "1", ".", "5">>
  /\ TotalsRow[2].text = <<"1", ".", "5", "0", "%">>

(***************************************************************************)
(* QueryCache.prefetch called by several threads on one cache              *)
(* (report_factory.py, lines 181-210).  The method takes no lock: a thread *)
(* can be suspended between its test of the cache (line 189), its          *)
(* statement (lines 196-197), its store (line 198) and the two halves of   *)
(* `self._query_count += 1` (line 203).                                    *)
(***************************************************************************)
Threads == {"t1", "t2"}

\* a thread that is not inside prefetch
Outside ==
  [pc |-> "outside", queries |-> <<>>, i |-> 1, seen |-> {}, template |-> <<>>,
   base_q |-> <<>>, rows |-> <<>>, ok |-> FALSE, read |-> 0]

\* the configurations the threads share, and the lists they prefetch: one
\* query or two
ThreadConfigurations == {{T_nr, tPadded}, {T_nr, T_all}}

ThreadLists == {<<q>> : q \in cfg} \cup {<<q, r>> : q, r \in cfg}

InitThreads ==
  /\ cfg \in ThreadConfigurations
  /\ db = [text \in StatementsOf(cfg) |-> DbExecute(text)]
  /\ cache = <<>>
  /\ base_query_cache = <<>>
  /\ query_count = 0
  /\ batch_sent = <<>>
  /\ attempts = 0
  /\ completed = 0
  /\ last = NoCall
  /\ threads = [t \in Threads |-> Outside]
  /\ NoRun

\* lines 186-187: a thread enters prefetch(queries)
EnterPrefetch(t) ==
  /\ threads[t].pc = "outside"
  /\ threads[t].i = 1
  /\ \E queries \in ThreadLists :
       threads' = [threads EXCEPT ![t] = [Outside EXCEPT !.pc = "test", !.queries = queries]]
  /\ UNCHANGED <<cfg, db, cache, base_query_cache, query_count, batch_sent, attempts,
                 completed, last>>
  /\ UNCHANGED <<runVars, reportVars>>

\* lines 187-194: the next template of the list, the test of `seen` and of the
\* cache, and the rewrite
TestCache(t) ==
  LET th == threads[t]
      Tested(template, memo) ==
        IF AlreadyFetched(th.seen, cache, template)
        THEN /\ threads' = [threads EXCEPT ![t].i = th.i + 1]
             /\ UNCHANGED base_query_cache
        ELSE /\ threads' = [threads EXCEPT ![t].pc = "execute",
                                           ![t].seen = th.seen \cup {template},
                                           ![t].template = template,
                                           ![t].base_q = memo[template].base_q]
             /\ base_query_cache' = memo
      Keyed(template) == Tested(template, get_base_query_cached(base_query_cache, template))
  IN /\ th.pc = "test"
     /\ IF th.i > Len(th.queries)
        THEN /\ threads' = [threads EXCEPT ![t].pc = "outside", ![t].i = th.i + 1]
             /\ UNCHANGED base_query_cache
        ELSE Keyed(get_template_query(th.queries[th.i]))
     /\ UNCHANGED <<cfg, db, cache, query_count, batch_sent, attempts, completed, last>>
     /\ UNCHANGED <<runVars, reportVars>>

\* lines 196-197: cursor.execute(base_q); cursor.fetchall().  down: they raise
\* for a reason outside the text
ExecuteBase(t) ==
  LET th == threads[t]
      Executed(answer, ok) ==
        /\ threads' = [threads EXCEPT ![t].pc = "store", ![t].rows = answer.rows,
                                      ![t].ok = ok]
        /\ batch_sent' = Append(batch_sent, Statement(t, th.template, th.base_q, ok))
        /\ attempts' = attempts + 1
        /\ completed' = IF ok THEN completed + 1 ELSE completed
      Sent(answer, down) == Executed(answer, answer.ok /\ ~down)
  IN /\ th.pc = "execute"
     /\ \E down \in BOOLEAN : Sent(Answer(th.base_q), down)
     /\ UNCHANGED <<cfg, db, cache, base_query_cache, query_count, last>>
     /\ UNCHANGED <<runVars, reportVars>>

\* lines 198-202 and 206-208: the entry is stored; line 203 reads the counter
StoreEntry(t) ==
  LET th == threads[t]
  IN /\ th.pc = "store"
     /\ cache' = (th.template :> BatchEntry(th.ok, th.rows)) @@ cache
     /\ threads' = [threads EXCEPT ![t].pc = "count", ![t].rows = <<>>,
                                   ![t].read = query_count]
     /\ UNCHANGED <<cfg, db, base_query_cache, query_count, batch_sent, attempts,
                    completed, last>>
     /\ UNCHANGED <<runVars, reportVars>>

\* line 203 writes the counter; the loop goes on
CountEntry(t) ==
  LET th == threads[t]
  IN /\ th.pc = "count"
     /\ query_count' = CountQuery(th.read, th.ok)
     /\ threads' = [threads EXCEPT ![t].pc = "test", ![t].i = th.i + 1, ![t].read = 0,
                                   ![t].ok = FALSE, ![t].template = <<>>,
                                   ![t].base_q = <<>>]
     /\ UNCHANGED <<cfg, db, cache, base_query_cache, batch_sent, attempts, completed,
                    last>>
     /\ UNCHANGED <<runVars, reportVars>>

NextThreads ==
  \E t \in Threads :
    \/ EnterPrefetch(t)
    \/ TestCache(t)
    \/ ExecuteBase(t)
    \/ StoreEntry(t)
    \/ CountEntry(t)

SpecThreads == InitThreads /\ [][NextThreads]_vars

(***************************************************************************)
(* C24                                                                     *)
(***************************************************************************)
\* the statements that were sent for a template
SentFor(sent, template) == {k \in 1..Len(sent) : sent[k].template = template}

\* the threads that have called prefetch with the template in their list
CallersOf(ths, template) ==
  {t \in Threads : \E k \in 1..Len(ths[t].queries) :
                      get_template_query(ths[t].queries[k]) = template}

Templates == {get_template_query(q) : q \in cfg}

\* C24: a template is executed at most once for every thread that prefetches
\* it, so never twice with a single caller, and never by a thread that tests
\* the cache after the entry was stored; two threads that prefetch the same
\* template can both pass the test before either stores, and then the base
\* query is executed twice.
C24_OncePerCaller ==
  [][/\ \A template \in Templates :
          Cardinality(SentFor(batch_sent', template))
             <= Cardinality(CallersOf(threads', template))
     /\ \A t \in Threads :
          threads[t].pc = "test" /\ threads'[t].pc = "execute"
             => threads'[t].template \notin DOMAIN cache]_vars

\* both threads have executed the base query of the same template, the second
\* before the first has stored its rows
C24_ExecutedTwice ==
  /\ threads # <<>>
  /\ Len(batch_sent) = 2
  /\ batch_sent[1].template = batch_sent[2].template
  /\ batch_sent[1].text = batch_sent[2].text
  /\ batch_sent[1].by = "t1" /\ batch_sent[2].by = "t2"
  /\ threads["t1"].pc = "store" /\ threads["t2"].pc = "store"
  /\ cache = <<>>

(***************************************************************************)
(* A factory in batch mode (report_factory.py, lines 304-382):             *)
(* prepare_batch, and the lookups of the summary and the tables of a task  *)
(* through _execute_query.  The factory holds an open connection.          *)
(***************************************************************************)
\* a configuration: cfg['summary']['query'] and the query of every table
QueryConfig(summary, data_tables) == [summary |-> summary, data_tables |-> data_tables]

QueryConfigs == {QueryConfig(T_nr, <<T_nr_lok>>), QueryConfig(tPadded, <<T_nr>>)}

QueryConfigSets ==
  UNION {[S -> QueryConfigs] :
           S \in SUBSET {WYKONANIE_A_TYP_A_TYDZIEN, WYKONANIE_A_TYP_B_TYDZIEN} \ {{}}}

\* the queries of one configuration (lines 321-325)
ConfigQueries(config) == <<config.summary>> \o config.data_tables

\* lines 315-318: `types = report_types or list(self.configs.keys())`, without
\* the types that have no configuration
BatchTypes(cfgs, report_types) ==
  SelectSeq(IF report_types = <<>> THEN ACTIVE_TYPES ELSE report_types,
            LAMBDA rt : rt \in DOMAIN cfgs)

\* a batch of the summary queries alone
SummaryQueries(cfgs, report_types) ==
  LET types == BatchTypes(cfgs, report_types)
  IN [k \in 1..Len(types) |-> cfgs[types[k]].summary]

\* lines 315-326: all_queries
all_queries(cfgs, report_types) ==
  LET types == BatchTypes(cfgs, report_types)
  IN Chain([k \in 1..Len(types) |-> ConfigQueries(cfgs[types[k]])])

\* the lists of types prepare_batch is called with: none, one type, or the
\* active types
BatchLists ==
  {<<>>, <<WYKONANIE_A_TYP_A_TYDZIEN>>, <<WYKONANIE_A_TYP_B_TYDZIEN>>, ACTIVE_TYPES}

InitPrepared ==
  /\ configs \in QueryConfigSets
  /\ cfg = UNION {{ConfigQueries(configs[rt])[k] : k \in 1..Len(ConfigQueries(configs[rt]))} :
                    rt \in DOMAIN configs}
  /\ db = [text \in StatementsOf(cfg) |-> DbExecute(text)]
  /\ InitCache
  /\ pc = "none"
  /\ conn = "open"
  /\ db_calls = 0
  /\ pdf_tasks = <<>>
  /\ idx = 0
  /\ payloads = <<>>
  /\ csv_log_rows = <<>>
  /\ futures = <<>>
  /\ processed = {}
  /\ all_generated = <<>>
  /\ log_file = <<>>
  /\ report = [op |-> "none"]
  /\ factory_cache = "None"
  /\ owns_connection = (conn = "none")
  /\ connection_closes = 0

\* prepare_batch(report_types): a new QueryCache (line 313) and its prefetch.
\* down: the templates whose statement raises for a reason outside the text
PrepareBatch ==
  LET Returned(report_types, queries, st) ==
        /\ factory_cache' = "QueryCache"
        /\ cache' = st.cache
        /\ base_query_cache' = st.memo
        /\ query_count' = st.count
        /\ batch_sent' = st.sent
        /\ attempts' = attempts + Len(st.sent)
        /\ completed' = completed + Cardinality({i \in 1..Len(st.sent) : st.sent[i].ok})
        /\ last' = [op |-> "prefetch", queries |-> queries, nr |-> None, lok |-> None,
                    result |-> <<>>, raised |-> FALSE, sent |-> st.sent]
        /\ report' = [op |-> "prepare_batch", types |-> report_types]
      Batch(report_types, queries, down) ==
        Returned(report_types, queries,
                 PrefetchLoop([seen |-> {}, memo |-> <<>>, cache |-> <<>>, count |-> 0,
                               sent |-> <<>>], queries, 1, down))
  IN /\ attempts < MaxExec
     /\ \E report_types \in BatchLists :
          \E down \in {{}} \cup {{get_template_query(q)} : q \in cfg} :
             Batch(report_types, all_queries(configs, report_types), down)
     /\ UNCHANGED <<cfg, db, threads, configs, owns_connection, connection_closes>>
     /\ UNCHANGED runVars

\* the ways the direct statement of _execute_query can fail
DirectFailures == {"none", "execute", "fetchall"}

\* _execute_query without a cache (lines 343-361): execute raises to the
\* caller, a failure of fetchall gives no rows
DirectQuery(query, nr, lokalizacja, failure) ==
  LET Done(resolved, answer, ok) ==
        /\ attempts' = attempts + 1
        /\ completed' = IF ok THEN completed + 1 ELSE completed
        /\ last' = [op |-> "direct", queries |-> <<query>>, nr |-> nr, lok |-> lokalizacja,
                    result |-> IF ok THEN Normalize(answer.rows) ELSE <<>>,
                    raised |-> ~answer.ok \/ failure = "execute",
                    sent |-> <<Statement("direct", get_template_query(query), resolved, ok)>>]
      Executed(resolved, answer) == Done(resolved, answer, answer.ok /\ failure = "none")
      Sent(resolved) == Executed(resolved, Answer(resolved))
  IN /\ attempts < MaxExec
     /\ Sent(Resolve(query, nr, lokalizacja))
     /\ UNCHANGED <<cfg, db, cache, base_query_cache, query_count, batch_sent, threads>>
     /\ UNCHANGED <<runVars, reportVars>>

\* _fetch_summary and _fetch_table_data of a task (rt, nr, lok): one call of
\* _execute_query (lines 340-341)
ExecuteQuery ==
  \E rt \in DOMAIN configs, nr \in {U1}, lok \in LokArgs :
    \E k \in 1..Len(ConfigQueries(configs[rt])) :
      IF factory_cache # "None"
      THEN \E down \in BOOLEAN :
             Get(ConfigQueries(configs[rt])[k], nr, IF k = 1 THEN None ELSE lok, down)
      ELSE \E failure \in DirectFailures :
             DirectQuery(ConfigQueries(configs[rt])[k], nr, IF k = 1 THEN None ELSE lok,
                         failure)

NextPrepared == PrepareBatch \/ ExecuteQuery

SpecPrepared == InitPrepared /\ [][NextPrepared]_vars

(***************************************************************************)
(* C25                                                                     *)
(***************************************************************************)
\* the types of the last prepare_batch that have a configuration
Prepared == {BatchTypes(configs, report.types)[k] :
               k \in 1..Len(BatchTypes(configs, report.types))}

\* the queries of the configurations of a set of types
QueriesOfTypes(types) ==
  UNION {{ConfigQueries(configs[rt])[k] : k \in 1..Len(ConfigQueries(configs[rt]))} :
           rt \in types}

\* C25: once prepare_batch has returned, no lookup of a summary or table query
\* of a configured type of the batch sends a statement, and the batch itself
\* sends at most one statement per distinct template of these types.
C25_NoQueryAfterBatch ==
  [][/\ (report.op = "prepare_batch" /\ last'.op = "get"
           /\ last'.queries[1] \in QueriesOfTypes(Prepared))
          => (last'.sent = <<>> /\ attempts' = attempts /\ query_count' = query_count)
     /\ report'.op = "prepare_batch"
          => Len(batch_sent') <= Cardinality(QueriesOfTypes(Prepared'))]_vars

\* after a batch of both types that sent two statements for four queries, a
\* lookup of the padded summary query is served without a statement
C25_ServedAfterBatch ==
  /\ report.op = "prepare_batch"
  /\ Prepared = {WYKONANIE_A_TYP_A_TYDZIEN, WYKONANIE_A_TYP_B_TYDZIEN}
  /\ configs[WYKONANIE_A_TYP_A_TYDZIEN] = QueryConfig(T_nr, <<T_nr_lok>>)
  /\ configs[WYKONANIE_A_TYP_B_TYDZIEN] = QueryConfig(tPadded, <<T_nr>>)
  /\ Len(batch_sent) = 2
  /\ attempts = 2
  /\ last.op = "get"
  /\ last.queries = <<tPadded>>
  /\ last.sent = <<>>

(***************************************************************************)
(* C26                                                                     *)
(***************************************************************************)
\* lines 78-79: has_nr_filter and has_lok_filter
TreatedAsFiltered(q, col, placeholder) ==
  Contains(q, placeholder) \/ ReSearch(DetectFilter(col), q)

\* a statement without the filter on col and without its placeholder
FilterGone(text, col, placeholder) ==
  ~Contains(text, placeholder) /\ ~ReSearch(FilterAlone(col), text)

\* C26: the base query that prefetch executes for a template that the rewrite
\* treats as filtered on the entity (or the location) holds neither that
\* filter predicate nor the placeholder '{nr}' (or '{lok}').
C26_DetectedFilterRemoved ==
  \A k \in 1..Len(batch_sent) :
     /\ TreatedAsFiltered(batch_sent[k].template, sNrUmowy, sPhNr)
           => FilterGone(batch_sent[k].text, sNrUmowy, sPhNr)
     /\ TreatedAsFiltered(batch_sent[k].template, sNazwaSklepu, sPhLok)
           => FilterGone(batch_sent[k].text, sNazwaSklepu, sPhLok)

\* prefetch has sent the template with the unquoted placeholder as it is,
\* with the entity column in front
C26_PlaceholderSent ==
  /\ cfg = {T_bare}
  /\ Len(batch_sent) = 1
  /\ batch_sent[1].template = T_bare
  /\ Contains(batch_sent[1].text, fNrBare)
  /\ base_query_cache[T_bare].nr_col = 0

(***************************************************************************)
(* C27                                                                     *)
(***************************************************************************)
\* the substitutions of lines 82-93 (or 96-107) change the template
FilterRemoved(template, col) == RemoveFilter(col, template) # template

\* C27: when the rewrite removes the entity (or location) filter of a
\* template, the nr_col (or lok_col) it returns is not None; a lookup with an
\* entity number that is served from the cache of such a template returns
\* rows of that entity only.
C27_RemovedFilterHasColumn ==
  /\ \A template \in DOMAIN base_query_cache :
        /\ FilterRemoved(template, sNrUmowy)
              => base_query_cache[template].nr_col # NoneCol
        /\ FilterRemoved(template, sNazwaSklepu)
              => base_query_cache[template].lok_col # NoneCol
  /\ (/\ CacheHit
      /\ last.nr # None
      /\ ~last.raised
      /\ HasEntityFilter(LastTemplate)
      /\ ~HasLocationFilter(LastTemplate)
      /\ Fetched(LastTemplate))
     => \A k \in 1..Len(last.result) :
           InList(EntityRows(LastTemplate, last.nr), last.result[k])

\* the lookup of contract U1 on the template that projects t.nr_umowy is
\* served from the cache with a row of contract U2
C27_OtherEntityServed ==
  /\ CacheHit
  /\ LastTemplate = T_qualified
  /\ last.nr = U1
  /\ base_query_cache[T_qualified].nr_col = NoneCol
  /\ \E k \in 1..Len(last.result) : last.result[k][1] = U2

(***************************************************************************)
(* C28                                                                     *)
(***************************************************************************)
\* C28: a call of get leaves the row cache as it was; for a template that is
\* not in the cache it sends exactly one statement, every time it is called.
C28_GetKeepsCache ==
  [][last'.op = "get" =>
       /\ cache' = cache
       /\ get_template_query(last'.queries[1]) \notin DOMAIN cache
             => (Len(last'.sent) = 1 /\ attempts' = attempts + 1)
       /\ get_template_query(last'.queries[1]) \in DOMAIN cache
             => (last'.sent = <<>> /\ attempts' = attempts)]_vars

\* two lookups of the one template of a configuration, none prefetched: both
\* were sent to the database and the cache is still empty
C28_AskedTwice ==
  /\ cfg = {T_nr}
  /\ batch_sent = <<>>
  /\ cache = <<>>
  /\ last.op = "get"
  /\ Len(last.sent) = 1
  /\ attempts = 2
  /\ query_count = 2

(***************************************************************************)
(* The lifetime of the connection: the run of main.py with the ways it can *)
(* be cut short, and a caller that makes a request to a factory, with a    *)
(* connection of its own or without, and calls close() when it likes.      *)
(***************************************************************************)
\* an exception that the handler of a task does not catch, while the payloads
\* are built: `finally: if factory: factory.close()` (main.py, 870-876)
AbortBuild ==
  /\ pc = "build"
  /\ conn' = close(owns_connection, conn)
  /\ connection_closes' = CloseCalls(owns_connection, conn, connection_closes)
  /\ pc' = "aborted"
  /\ UNCHANGED <<db_calls, pdf_tasks, idx, payloads, csv_log_rows, futures, processed,
                 all_generated, log_file>>
  /\ UNCHANGED <<cacheVars, configs, report, factory_cache, owns_connection>>

\* an exception after line 817 (`factory = None`): the finally calls nothing
AbortRender ==
  /\ pc \in {"submit", "collect"}
  /\ pc' = "aborted"
  /\ UNCHANGED <<conn, db_calls, pdf_tasks, idx, payloads, csv_log_rows, futures, processed,
                 all_generated, log_file>>
  /\ UNCHANGED <<cacheVars, reportVars>>

\* a call of ReportFactory.close() by the caller of a factory
CloseCall ==
  /\ pc = "none"
  /\ conn' = close(owns_connection, conn)
  /\ connection_closes' = CloseCalls(owns_connection, conn, connection_closes)
  /\ UNCHANGED <<pc, db_calls, pdf_tasks, idx, payloads, csv_log_rows, futures, processed,
                 all_generated, log_file>>
  /\ UNCHANGED <<cacheVars, configs, report, factory_cache, owns_connection>>

InitLifetime == InitRun \/ InitReport

NextLifetime ==
  \/ NextRun
  \/ AbortBuild
  \/ AbortRender
  \/ (pc = "none" /\ NextReport)
  \/ CloseCall

SpecLifetime == InitLifetime /\ [][NextLifetime]_vars

(***************************************************************************)
(* C29                                                                     *)
(***************************************************************************)
\* C29: however the run ends, the connection its factory opened is closed;
\* a connection receives at most one close(), and close() on a factory whose
\* connection is closed changes nothing; a connection the caller passed in is
\* still open and has received no close().
C29_OwnConnectionClosedOnce ==
  [][/\ pc' \in {"done", "aborted"} => conn' # "open"
     /\ connection_closes' <= 1
     /\ conn = "closed" => (conn' = "closed" /\ connection_closes' = connection_closes)
     /\ ~owns_connection' => (conn' = "open" /\ connection_closes' = 0)]_vars

\* the run was cut short while its payloads were built, after one of three;
\* its connection is closed
C29_ClosedAfterAbort ==
  /\ pc = "aborted"
  /\ Len(pdf_tasks) = 3
  /\ Len(csv_log_rows) = 1
  /\ owns_connection
  /\ conn = "closed"
  /\ connection_closes = 1

(***************************************************************************)
(* C30                                                                     *)
(***************************************************************************)
\* the rows of the table that begin with the label of the totals
LabelledRows(table_data) ==
  {r \in 1..Len(table_data) :
     table_data[r] # <<>> /\ table_data[r][1] = Paragraph(sSUMA, "TblTotalLabel")}

\* a row of num_cols blank cells
BlankRow(row, num_cols) ==
  Len(row) = num_cols /\ \A k \in 1..num_cols : row[k] = Blank

\* the row of the table shows the first num_cols cells of the row of the data,
\* and blank cells where the data has none
ShowsRow(shown, row, num_cols) ==
  /\ Len(shown) = num_cols
  /\ \A k \in 1..num_cols :
        IF k <= Len(row)
        THEN shown[k] = FormatCell(k - 1, row[k], report.currency_columns,
                                   report.currency_columns_2, report.percentage_columns)
        ELSE shown[k].text = <<>>

\* C30: a table has a totals row exactly when add_total_row is set and it has
\* data; the totals row is the last row, begins with the label SUMA and has
\* one cell per header; a table without data has exactly three blank rows
\* after the header row and no totals row; every data row is shown with
\* exactly one cell per header.
C30_TotalsRowAndPadding ==
  report.op = "create_large_table" =>
    LET rows == report.gave.table_data
        n == Len(report.headers)
        totals == report.add_total_row /\ report.data # <<>>
    IN /\ report.gave.has_total_row = totals
       /\ LabelledRows(rows) = IF totals THEN {Len(rows)} ELSE {}
       /\ totals => Len(rows[Len(rows)]) = n
       /\ Len(rows) = 2 + Len(report.data) + (IF totals THEN 1 ELSE 0)
                        + (IF report.data = <<>> THEN 3 ELSE 0)
       /\ report.data = <<>> => \A r \in 3..5 : BlankRow(rows[r], n)
       /\ \A r \in 1..Len(report.data) : ShowsRow(rows[2 + r], report.data[r], n)

\* a table of one header with totals: the row of two cells is cut to one, the
\* empty row is filled with a blank cell, and the totals row is the label alone
C30_CutAndFilled ==
  /\ report.op = "create_large_table"
  /\ report.headers = <<"H0">>
  /\ report.add_total_row
  /\ Len(report.data) = 2
  /\ Len(report.data[1]) = 2
  /\ report.data[2] = <<>>
  /\ Len(report.gave.table_data) = 5
  /\ Len(report.gave.table_data[3]) = 1
  /\ report.gave.table_data[4] = <<Paragraph(<<>>, "TblDataLeft")>>
  /\ report.gave.table_data[5] = <<Paragraph(sSUMA, "TblTotalLabel")>>


====
